---------------------------- MODULE Spec2Model ----------------------------
(***************************************************************************)
(* Model of the two weather-fetcher pages of imstilstanding/dc:            *)
(*   - the weekend variant  (src/weatherfetcherapp1 (1)/app/page.tsx):     *)
(*     ZIP range generator, weekend date calculator, sequential fetch loop *)
(*   - the standard variant (src/app/page.tsx): ZIP validation, one POST   *)
(*     and a server-sent-event stream.                                     *)
(* A JavaScript string is modelled as the sequence of its characters; a    *)
(* Date as its local calendar fields [y, m, d].                            *)
(***************************************************************************)
EXTENDS Integers, Sequences, FiniteSets, TLC

VARIABLES
    \* ---- weekend date calculator (getWeekendDates) ----
    today,          \* the value of new Date(): [y, m, d]
    dates,          \* the object getWeekendDates returned, or NoDates
    \* ---- ZIP range generator (generateAllZipCodesForState) ----
    stateCode,      \* the argument
    generated,      \* whether the function has returned
    stateZips,      \* the returned array
    \* ---- weekend variant: useState of WeekendWeatherFetcher ----
    apiKey,
    zipCodes,       \* the ZIP textarea, as its lines
    isProcessing,
    progress,
    logs,
    weatherData,
    error,
    previewData,
    showPreview,
    testMode,
    loops,          \* the calls of startFetching, in the order they were made
    \* ---- standard variant: useState / useRef of WeatherFetcher ----
    sApiKey,        \* apiKey of src/app/page.tsx
    sZipCodes,      \* zipCodes of src/app/page.tsx, as its characters
    isLoading,
    sProgress,      \* progress of src/app/page.tsx
    currentZip,
    sessionId,
    sWeatherData,   \* weatherData of src/app/page.tsx
    errors,
    validationErrors,
    isCompleted,
    totalZips,
    processedZips,
    eventSourceRef, \* index in streams of eventSourceRef.current, 0: null
    posts,          \* the POSTs to /api/fetch-weather, in the order they were sent
    streams,        \* the EventSource objects, in the order they were created
    previews,       \* the GETs of /api/preview/<session>, in the order they were sent
    lastHandler,    \* history: the handler that ran last
    \* ---- validateAndCleanZipCodes of src/app/page.tsx: argument and result ----
    tokenList,
    cleaned,
    \* ---- escapeCSV of downloadCsv: argument and result ----
    csvValue,
    csvField,
    \* ---- downloadCsv: weatherData, testMode and new Date() at the call, and the text written ----
    exportData,
    exportTestMode,
    exportNow,
    csvContent,
    \* ---- generateSampleWeekendData: the calls made so far, each with its ZIP code, its new Date() and the record returned ----
    sampleCalls,
    \* ---- fetchWeekendWeatherForZip: new Date() (local date, local hour, zone offset) and the dates of its two URLs ----
    queryNow,
    queryHour,
    queryOffset,
    queryDates

dateVars == <<today, dates>>
zipVars  == <<stateCode, generated, stateZips>>
wkVars   == <<apiKey, zipCodes, isProcessing, progress, logs, weatherData, error,
              previewData, showPreview, testMode, loops>>
stdVars  == <<sApiKey, sZipCodes, isLoading, sProgress, currentZip, sessionId,
              sWeatherData, errors, validationErrors, isCompleted, totalZips,
              processedZips, eventSourceRef, posts, streams, previews, lastHandler>>
valVars  == <<tokenList, cleaned>>
escVars  == <<csvValue, csvField>>
expVars  == <<exportData, exportTestMode, exportNow, csvContent>>
smpVars == <<sampleCalls>>
qryVars == <<queryNow, queryHour, queryOffset, queryDates>>
vars     == <<dateVars, zipVars, wkVars, stdVars, valVars, escVars, expVars, smpVars, qryVars>>

-----------------------------------------------------------------------------
(* Bounds of the model *)

\* first and last year from which the current date is drawn
FirstYear == 2019
LastYear == 2021

\* longest ZIP list the user enters
MaxZips == 3

\* number of times startFetching is called
MaxRuns == 2

\* number of ZIP codes submitted, over all calls of startFetching
MaxTotalZips == 3

\* number of submissions the standard variant posts
MaxSubmits == 2

\* number of messages one event stream delivers
MaxEvents == 2

\* longest token list handed to validateAndCleanZipCodes
MaxTokens == 3

\* longest string handed to escapeCSV
MaxFieldLen == 3

\* largest number of weather records exported
MaxRows == 2

\* largest number of calls of generateSampleWeekendData
MaxSampleCalls == 2

\* number of consecutive days the calls of generateSampleWeekendData are made on
MaxSampleDays == 8

-----------------------------------------------------------------------------
(***************************************************************************)
(* JavaScript Date, local calendar fields.  m is 1..12 (getMonth() + 1).   *)
(***************************************************************************)

IsLeapYear(y) == (y % 4 = 0 /\ y % 100 # 0) \/ y % 400 = 0

DaysInMonth(y, m) ==
    IF m = 2 THEN (IF IsLeapYear(y) THEN 29 ELSE 28)
    ELSE IF m \in {4, 6, 9, 11} THEN 30 ELSE 31

DaysInYear(y) == IF IsLeapYear(y) THEN 366 ELSE 365

\* MakeDay/MakeDate of ECMAScript for a day-of-month past the end of the
\* month: the date rolls over into the following month(s).
RECURSIVE MakeDate(_, _, _)
MakeDate(y, m, d) ==
    IF d > DaysInMonth(y, m)
    THEN (IF m = 12 THEN MakeDate(y + 1, 1, d - DaysInMonth(y, m))
                    ELSE MakeDate(y, m + 1, d - DaysInMonth(y, m)))
    ELSE [y |-> y, m |-> m, d |-> d]

\* Date.prototype.setDate on a copy: new Date(date); copy.setDate(n)
setDate(date, n) == MakeDate(date.y, date.m, n)

\* a setFullYear that stops at the last day of the month
setFullYearClamped(date, year) ==
    [y |-> year, m |-> date.m,
     d |-> IF date.d > DaysInMonth(year, date.m) THEN DaysInMonth(year, date.m) ELSE date.d]

\* Date.prototype.setFullYear on a copy: month and day are kept, and a day
\* that does not exist in the new year (Feb 29) rolls over to Mar 1.
setFullYear(date, year) == MakeDate(year, date.m, date.d)

\* Number of days from 1970-01-01 (a Thursday) to the given date.
RECURSIVE DaysBeforeYear(_)
DaysBeforeYear(y) == IF y <= 1970 THEN 0 ELSE DaysBeforeYear(y - 1) + DaysInYear(y - 1)

RECURSIVE DaysBeforeMonth(_, _)
DaysBeforeMonth(y, m) == IF m <= 1 THEN 0 ELSE DaysBeforeMonth(y, m - 1) + DaysInMonth(y, m - 1)

DayNumber(date) == DaysBeforeYear(date.y) + DaysBeforeMonth(date.y, date.m) + (date.d - 1)

\* Date.prototype.getDay: 0 = Sunday, ..., 5 = Friday, 6 = Saturday
getDay(date) == (DayNumber(date) + 4) % 7

NoDates == [none |-> TRUE]

\* The if/else chain of getWeekendDates
daysUntilFridayMutant(currentDay) ==
    IF currentDay = 0 THEN 5
    ELSE IF currentDay = 1 THEN 4
    ELSE IF currentDay = 2 THEN 3
    ELSE IF currentDay = 3 THEN 2
    ELSE IF currentDay = 4 THEN 1
    ELSE IF currentDay = 5 THEN 0
    ELSE 7

daysUntilFriday(currentDay) ==
    IF currentDay = 0 THEN 5
    ELSE IF currentDay = 1 THEN 4
    ELSE IF currentDay = 2 THEN 3
    ELSE IF currentDay = 3 THEN 2
    ELSE IF currentDay = 4 THEN 1
    ELSE IF currentDay = 5 THEN 0
    ELSE 6

getWeekendDates(now) ==
    LET currentDay   == getDay(now)
        thisFriday   == setDate(now, now.d + daysUntilFriday(currentDay))
        thisSaturday == setDate(thisFriday, thisFriday.d + 1)
        thisSunday   == setDate(thisFriday, thisFriday.d + 2)
        nextFriday   == setDate(thisFriday, thisFriday.d + 7)
        nextSaturday == setDate(nextFriday, nextFriday.d + 1)
        nextSunday   == setDate(nextFriday, nextFriday.d + 2)
    IN  [thisFriday       |-> thisFriday,
         thisSaturday     |-> thisSaturday,
         thisSunday       |-> thisSunday,
         nextFriday       |-> nextFriday,
         nextSaturday     |-> nextSaturday,
         nextSunday       |-> nextSunday,
         lastYearFriday   |-> setFullYear(thisFriday, thisFriday.y - 1),
         lastYearSaturday |-> setFullYear(thisSaturday, thisSaturday.y - 1),
         lastYearSunday   |-> setFullYear(thisSunday, thisSunday.y - 1)]

\* Every calendar date of the years FirstYear..LastYear
AllDates ==
    {[y |-> y, m |-> m, d |-> d] : y \in FirstYear..LastYear, m \in 1..12, d \in 1..31}

ValidDates == {dt \in AllDates : dt.d <= DaysInMonth(dt.y, dt.m)}

-----------------------------------------------------------------------------
(***************************************************************************)
(* ZIP range generator.  A ZIP string is the sequence of its decimal       *)
(* digits, each digit d standing for the character "0" + d; the UTF-16     *)
(* code units of "0".."9" are ordered as the digits are.                   *)
(***************************************************************************)

\* the zipRanges table of generateAllZipCodesForState
zipRanges ==
    ("AL" :> [start |-> 35004, end |-> 36925]) @@
    ("AK" :> [start |-> 99501, end |-> 99950]) @@
    ("AZ" :> [start |-> 85001, end |-> 86556]) @@
    ("AR" :> [start |-> 71601, end |-> 72959]) @@
    ("CA" :> [start |-> 90001, end |-> 96162]) @@
    ("CO" :> [start |-> 80001, end |-> 81658]) @@
    ("CT" :> [start |-> 6001, end |-> 6928]) @@
    ("DE" :> [start |-> 19701, end |-> 19980]) @@
    ("FL" :> [start |-> 32003, end |-> 34997]) @@
    ("GA" :> [start |-> 30002, end |-> 31999]) @@
    ("HI" :> [start |-> 96701, end |-> 96898]) @@
    ("ID" :> [start |-> 83201, end |-> 83877]) @@
    ("IL" :> [start |-> 60001, end |-> 62999]) @@
    ("IN" :> [start |-> 46001, end |-> 47997]) @@
    ("IA" :> [start |-> 50001, end |-> 52809]) @@
    ("KS" :> [start |-> 66002, end |-> 67954]) @@
    ("KY" :> [start |-> 40003, end |-> 42788]) @@
    ("LA" :> [start |-> 70001, end |-> 71497]) @@
    ("ME" :> [start |-> 3901, end |-> 4992]) @@
    ("MD" :> [start |-> 20601, end |-> 21930]) @@
    ("MA" :> [start |-> 1001, end |-> 5544]) @@
    ("MI" :> [start |-> 48001, end |-> 49971]) @@
    ("MN" :> [start |-> 55001, end |-> 56763]) @@
    ("MS" :> [start |-> 38601, end |-> 39776]) @@
    ("MO" :> [start |-> 63001, end |-> 65899]) @@
    ("MT" :> [start |-> 59001, end |-> 59937]) @@
    ("NE" :> [start |-> 68001, end |-> 69367]) @@
    ("NV" :> [start |-> 89001, end |-> 89883]) @@
    ("NH" :> [start |-> 3031, end |-> 3897]) @@
    ("NJ" :> [start |-> 7001, end |-> 8989]) @@
    ("NM" :> [start |-> 87001, end |-> 88441]) @@
    ("NY" :> [start |-> 10001, end |-> 14925]) @@
    ("NC" :> [start |-> 27006, end |-> 28909]) @@
    ("ND" :> [start |-> 58001, end |-> 58856]) @@
    ("OH" :> [start |-> 43001, end |-> 45999]) @@
    ("OK" :> [start |-> 73001, end |-> 74966]) @@
    ("OR" :> [start |-> 97001, end |-> 97920]) @@
    ("PA" :> [start |-> 15001, end |-> 19640]) @@
    ("RI" :> [start |-> 2801, end |-> 2940]) @@
    ("SC" :> [start |-> 29001, end |-> 29945]) @@
    ("SD" :> [start |-> 57001, end |-> 57799]) @@
    ("TN" :> [start |-> 37010, end |-> 38589]) @@
    ("TX" :> [start |-> 73301, end |-> 88595]) @@
    ("UT" :> [start |-> 84001, end |-> 84791]) @@
    ("VT" :> [start |-> 5001, end |-> 5907]) @@
    ("VA" :> [start |-> 20101, end |-> 24658]) @@
    ("WA" :> [start |-> 98001, end |-> 99403]) @@
    ("WV" :> [start |-> 24701, end |-> 26886]) @@
    ("WI" :> [start |-> 53001, end |-> 54990]) @@
    ("WY" :> [start |-> 82001, end |-> 83128])

\* Number.prototype.toString: decimal digits, no leading zeros
RECURSIVE toString(_)
toString(n) == IF n < 10 THEN <<n>> ELSE Append(toString(n \div 10), n % 10)

\* String.prototype.padStart(len, "0")
RECURSIVE padStart(_, _)
padStart(s, len) == IF Len(s) >= len THEN s ELSE padStart(<<0>> \o s, len)

\* the states whose strings the first loop pads with leading zeros
PaddedStates == {"CT", "MA", "ME", "NH", "RI", "VT"}

\* a loop that stops one short: for (zip = from; zip < to; zip++)
pushRangeExclusive(zips, from, to, pad) ==
    zips \o [i \in 1..(to - from) |->
                IF pad THEN padStart(toString(from + i - 1), 5)
                       ELSE toString(from + i - 1)]

\* for (zip = from; zip <= to; zip++) zips.push(format(zip))
pushRange(zips, from, to, pad) ==
    zips \o [i \in 1..(to - from + 1) |->
                IF pad THEN padStart(toString(from + i - 1), 5)
                       ELSE toString(from + i - 1)]

\* the distinct strings of an array
SetOf(zips) == {zips[i] : i \in DOMAIN zips}

\* An array that skips the Set and keeps every pushed string
dedupeKeepsAll(zips) == zips

\* [...new Set(zips)]: the strings in insertion order, each one kept at its
\* first occurrence only (computed by halving the array)
RECURSIVE dedupe(_)
dedupe(zips) ==
    IF Len(zips) <= 1 THEN zips
    ELSE LET half  == Len(zips) \div 2
             left  == dedupe(SubSeq(zips, 1, half))
             seen  == SetOf(left)
             right == dedupe(SubSeq(zips, half + 1, Len(zips)))
         IN  left \o SelectSeq(right, LAMBDA s : s \notin seen)

\* Array.prototype.sort() without a comparator, on strings: ascending by
\* UTF-16 code units, a proper prefix before its extensions, equal strings
\* kept in their order.  The strings are grouped by the character at
\* position pos, those that end before pos first.
RECURSIVE sortFrom(_, _)
sortFrom(arr, pos) ==
    IF Len(arr) <= 1 THEN arr
    ELSE LET ended == SelectSeq(arr, LAMBDA s : Len(s) < pos)
             RECURSIVE bucket(_)
             bucket(c) ==
                 IF c > 9 THEN <<>>
                 ELSE sortFrom(SelectSeq(arr, LAMBDA s : Len(s) >= pos /\ s[pos] = c), pos + 1)
                      \o bucket(c + 1)
         IN  IF Len(ended) = Len(arr) THEN arr ELSE ended \o bucket(0)

sort(arr) == sortFrom(arr, 1)

\* a generator without the early return, with a range of its own for a code
\* the table does not hold
generateAllZipCodesForStateUnguarded(code) ==
    LET range == IF code \in DOMAIN zipRanges THEN zipRanges[code]
                 ELSE [start |-> 0, end |-> 0]
        base  == pushRange(<<>>, range.start, range.end, code \in PaddedStates)
        ny    == IF code = "NY" THEN pushRange(base, 10001, 11697, FALSE) ELSE base
        ca    == IF code = "CA" THEN pushRange(ny, 93001, 96162, FALSE) ELSE ny
        tx    == IF code = "TX"
                 THEN pushRange(pushRange(ca, 75001, 79999, FALSE), 77001, 77999, FALSE)
                 ELSE ca
    IN  sort(dedupe(tx))

\* lines 140-243; `if (!range) return []` for a code the table does not hold
generateAllZipCodesForState(code) ==
    IF code \notin DOMAIN zipRanges THEN <<>>
    ELSE LET range == zipRanges[code]
             base  == pushRange(<<>>, range.start, range.end, code \in PaddedStates)
             ny    == IF code = "NY" THEN pushRange(base, 10001, 11697, FALSE) ELSE base
             ca    == IF code = "CA" THEN pushRange(ny, 93001, 96162, FALSE) ELSE ny
             tx    == IF code = "TX"
                      THEN pushRange(pushRange(ca, 75001, 79999, FALSE), 77001, 77999, FALSE)
                      ELSE ca
         IN  sort(dedupe(tx))

\* the ranges the loops of lines 220-240 push after the base range
additionalRanges(code) ==
    IF code = "NY" THEN {[start |-> 10001, end |-> 11697]}
    ELSE IF code = "CA" THEN {[start |-> 93001, end |-> 96162]}
    ELSE IF code = "TX" THEN {[start |-> 75001, end |-> 79999], [start |-> 77001, end |-> 77999]}
    ELSE {}

\* the supported state codes and some codes the table does not hold
StateCodes == DOMAIN zipRanges
UnknownCodes == {"DC", "PR", "XX", ""}

-----------------------------------------------------------------------------
(* The weekend date calculator as a state machine *)

InitDates ==
    /\ today \in ValidDates
    /\ dates = NoDates

IdleDates ==
    /\ today = [y |-> FirstYear, m |-> 1, d |-> 1]
    /\ dates = NoDates

\* one call of getWeekendDates()
GetWeekendDates ==
    /\ dates = NoDates
    /\ dates' = getWeekendDates(today)
    /\ UNCHANGED today
    /\ UNCHANGED <<zipVars, wkVars, stdVars, valVars, escVars, expVars, smpVars, qryVars>>

-----------------------------------------------------------------------------
(* The ZIP range generator as a state machine *)

InitZip ==
    /\ stateCode \in StateCodes \cup UnknownCodes
    /\ generated = FALSE
    /\ stateZips = <<>>

IdleZip ==
    /\ stateCode = ""
    /\ generated = FALSE
    /\ stateZips = <<>>

\* one call of generateAllZipCodesForState(stateCode)
GenerateZips ==
    /\ ~generated
    /\ generated' = TRUE
    /\ stateZips' = generateAllZipCodesForState(stateCode)
    /\ UNCHANGED stateCode
    /\ UNCHANGED <<dateVars, wkVars, stdVars, valVars, escVars, expVars, smpVars, qryVars>>

-----------------------------------------------------------------------------
(* Claims about the ZIP range generator (checked under SpecZip) *)

\* a < b as JavaScript compares strings: by code units at the first
\* difference, a proper prefix being smaller
LexLess(a, b) ==
    \E k \in 1..(Len(a) + 1) :
        /\ \A j \in 1..(k - 1) : j <= Len(b) /\ a[j] = b[j]
        /\ k <= Len(b)
        /\ (k <= Len(a) => a[k] < b[k])

\* C7: for every supported state code the returned list is sorted in
\* lexicographic string order and holds no string twice, also where the
\* unioned ranges overlap (NY, CA, TX).
C7_SortedNoDuplicates ==
    (generated /\ stateCode \in StateCodes) =>
        /\ \A i \in 1..(Len(stateZips) - 1) : LexLess(stateZips[i], stateZips[i + 1])
        /\ Cardinality(SetOf(stateZips)) = Len(stateZips)

\* C7 witness: TX, whose extra ranges 75001-79999 and 77001-77999 overlap
\* the base range and each other, has been generated: 15295 distinct codes
C7_Witness ==
    /\ generated
    /\ stateCode = "TX"
    /\ Len(stateZips) = 88595 - 73301 + 1
    /\ stateZips[1] = <<7, 3, 3, 0, 1>>

\* C8 (as claimed): for every supported state code every returned string is
\* exactly 5 decimal digits.
C8_AllFiveDigits ==
    (generated /\ stateCode \in StateCodes) =>
        \A i \in 1..Len(stateZips) :
            Len(stateZips[i]) = 5 /\ \A j \in 1..5 : stateZips[i][j] \in 0..9

\* the states with more than one range
MultiRangeStates == {"NY", "CA", "TX"}

\* the base interval of a state and every additional interval
SubRanges(code) == {zipRanges[code]} \cup additionalRanges(code)

\* C17: for NY, CA and TX the returned list holds every value generated by
\* each constituent sub-range, the base interval and every additional one.
C17_SupersetOfEverySubRange ==
    (generated /\ stateCode \in MultiRangeStates) =>
        LET returned == SetOf(stateZips)
        IN  \A r \in SubRanges(stateCode) :
                \A zip \in r.start..r.end : toString(zip) \in returned

\* C17 witness: TX has been generated and holds the ends of its base range
\* and of both additional ranges
C17_Witness ==
    /\ generated
    /\ stateCode = "TX"
    /\ Cardinality(SubRanges(stateCode)) = 3
    /\ {<<7, 3, 3, 0, 1>>, <<8, 8, 5, 9, 5>>, <<7, 5, 0, 0, 1>>, <<7, 9, 9, 9, 9>>,
        <<7, 7, 0, 0, 1>>, <<7, 7, 9, 9, 9>>} \subseteq SetOf(stateZips)

\* the number a returned string spells
RECURSIVE zipNumber(_)
zipNumber(s) == IF s = <<>> THEN 0 ELSE 10 * zipNumber(SubSeq(s, 1, Len(s) - 1)) + s[Len(s)]

\* two intervals without a common value
Disjoint(r, base) == r.end < base.start \/ r.start > base.end

\* C18: for NY, CA and TX the additional ranges are disjoint from the
\* state's base interval, so the returned list holds ZIP codes outside
\* [start, end] and has more than end - start + 1 elements.
C18_AdditionalRangesExtendBase ==
    (generated /\ stateCode \in MultiRangeStates) =>
        LET base == zipRanges[stateCode]
        IN  /\ \A r \in additionalRanges(stateCode) : Disjoint(r, base)
            /\ \E i \in DOMAIN stateZips : zipNumber(stateZips[i]) \notin base.start..base.end
            /\ Len(stateZips) > base.end - base.start + 1

\* C19: for every state code that is not one of the supported codes the
\* generator returns the empty list.
C19_UnknownCodeEmptyList ==
    (generated /\ stateCode \notin StateCodes) => stateZips = <<>>

\* C19 witness: the generator has been called with the unsupported code DC
C19_Witness ==
    /\ generated
    /\ stateCode = "DC"
    /\ stateCode \notin StateCodes
    /\ Len(stateZips) = 0

-----------------------------------------------------------------------------
(* Claims about the weekend date calculator (checked under SpecDates) *)

Computed == dates # NoDates

\* the offsets the specification lists, by getDay() value 0 (Sunday) .. 6
SpecifiedOffset == <<5, 4, 3, 2, 1, 0, 6>>

\* C9 (as claimed): when today is a Friday, Saturday or Sunday, today is one
\* of thisFriday, thisSaturday, thisSunday.
C9_TodayWithinThisWeekend ==
    (Computed /\ getDay(today) \in {5, 6, 0}) =>
        today \in {dates.thisFriday, dates.thisSaturday, dates.thisSunday}

LastYearPairs ==
    {<<dates.thisFriday, dates.lastYearFriday>>,
     <<dates.thisSaturday, dates.lastYearSaturday>>,
     <<dates.thisSunday, dates.lastYearSunday>>}

-----------------------------------------------------------------------------
(***************************************************************************)
(* Weekend variant: component state and the startFetching loop.            *)
(*                                                                         *)
(* JavaScript runs one task at a time, so the code between two awaits of   *)
(* an async function is one atomic step.  Each call of startFetching is a  *)
(* loop record in `loops`: it keeps the values its closure captured        *)
(* (zipList, testMode), its local variables (results, completed, errors)   *)
(* and the await it is suspended at (pc):                                  *)
(*   "sleep"      the test-mode setTimeout of line 616                     *)
(*   "historical" the fetch of the historical URL, line 476                *)
(*   "forecast"   the fetch of the forecast URL, line 494                  *)
(*   "wait"       the rate-limit setTimeout of line 648                    *)
(*   "done"       the function has returned                                *)
(* A 2xx response is taken to carry the provider's JSON with a days array. *)
(* History fields that the program does not hold: a loop's `served` (per   *)
(* ZIP, whether data was delivered for it) and `stopAt` (how many ZIPs had *)
(* been started when Stop was pressed, 0: never), and a log line's `run`,  *)
(* `query` and `status` (the loop that wrote it and the response that      *)
(* caused it).                                                             *)
(***************************************************************************)

Null == "<null>"

\* the value of progress before the first setProgress: null
NoProgress == [current |-> 0, total |-> 0, zip_code |-> Null, status |-> Null]

\* an Error message: its text and the status code the text ends with (0: none)
Msg(text, code) == [text |-> text, code |-> code]

NoMsg == Msg("", 0)

\* a line of the activity log (the time prefix of addLog is left out)
LogLine(kind, zip, msg, run, query, status) ==
    [kind |-> kind, zip |-> zip, msg |-> msg, run |-> run, query |-> query, status |-> status]

Note(kind, run) == LogLine(kind, "", NoMsg, run, "", 0)

ZipNote(kind, zip, run) == LogLine(kind, zip, NoMsg, run, "", 0)

\* addLog(`X zip: message`)
FailureLine(zip, msg, run, query, status) == LogLine("failure", zip, msg, run, query, status)

\* a line of the ZIP textarea: its text and whether blanks surround it
Line(text, blanks) == [text |-> text, blanks |-> blanks]

\* String.prototype.trim on a line
trim(line) == line.text

\* the ZIP codes of loadSampleZipCodes
SampleZips == <<"10001", "90210", "60601", "33101", "02101">>

\* zipCodes.split("\n").filter((zip) => zip.trim()).map((zip) => zip.trim())
zipListOf(lines) ==
    LET kept == SelectSeq(lines, LAMBDA ln : trim(ln) # "")
    IN  [k \in 1..Len(kept) |-> trim(kept[k])]

\* what the user can have in the ZIP textarea: nothing, blank lines only,
\* the first n sample ZIPs, and two ZIPs with blanks around and between
ZipInputs ==
    {<<>>, <<Line("", TRUE), Line("", FALSE)>>,
     <<Line(SampleZips[1], TRUE), Line("", FALSE), Line(SampleZips[2], TRUE)>>}
    \cup {[k \in 1..n |-> Line(SampleZips[k], FALSE)] : n \in 1..MaxZips}

\* HTTP statuses the provider answers with; NetworkError: fetch rejects
Statuses == {200, 429}
NetworkError == 0
Outcomes == Statuses \cup {NetworkError}

\* response.ok
ok(status) == status \in 200..299

\* the record generateSampleWeekendData / fetchWeekendWeatherForZip builds
WeatherRecord(zip, origin) == [zip_code |-> zip, origin |-> origin]

\* the Error thrown for a historical response that is not ok (lines 477-487)
historicalError(status) ==
    IF status = 401 THEN Msg("Invalid API key - Please check your Visual Crossing API key", 0)
    ELSE IF status = 429 THEN Msg("Rate limit exceeded - Please wait and try again", 0)
    ELSE IF status = 400 THEN Msg("Invalid ZIP code or date range", 0)
    ELSE Msg("Historical API Error", status)

\* the Error thrown for a forecast response that is not ok (lines 495-497)
forecastError(status) == Msg("Forecast API Error", status)

\* the TypeError a rejected fetch throws
fetchRejected == Msg("Failed to fetch", 0)

\* setProgress({current, total, zip_code, status})
Progress(current, total, zip, status) ==
    [current |-> current, total |-> total, zip_code |-> zip, status |-> status]

\* results.slice(0, 3)
slice3(results) == SubSeq(results, 1, IF Len(results) < 3 THEN Len(results) ELSE 3)

Active(l) == l.pc # "done"

InFlight(l) == l.pc \in {"historical", "forecast"}

\* number of ZIPs of its list a loop has begun to process
Started(l) == l.completed + (IF l.pc \in {"sleep", "historical", "forecast"} THEN 1 ELSE 0)

InitWeekend ==
    /\ apiKey = Line("", FALSE)
    /\ zipCodes = <<>>
    /\ isProcessing = FALSE
    /\ progress = NoProgress
    /\ logs = <<>>
    /\ weatherData = <<>>
    /\ error = Null
    /\ previewData = <<>>
    /\ showPreview = FALSE
    /\ testMode = TRUE
    /\ loops = <<>>

\* the part of the state the weekend page does not touch
WeekendOnly == UNCHANGED <<dateVars, zipVars, stdVars, valVars, escVars, expVars, smpVars, qryVars>>

\* the lines a loop logs when it begins a ZIP, up to its first await
beginLines(live, zip, run) ==
    <<ZipNote("Processing weekend data for", zip, run)>>
    \o (IF live THEN <<ZipNote("Fetching historical data for", zip, run)>> ELSE <<>>)

\* the await a loop reaches first when it begins a ZIP
beginPc(live) == IF live THEN "historical" ELSE "sleep"

\* number of ZIP codes the calls of startFetching made so far were given
RECURSIVE SumLists(_)
SumLists(ls) == IF ls = <<>> THEN 0 ELSE Len(Head(ls).zipList) + SumLists(Tail(ls))

SubmittedZips == SumLists(loops)

\* startFetching, lines 554-620: the checks, the resets, the header of the
\* log and the first iteration up to its first await
startFetching ==
    /\ ~isProcessing                 \* the Start button is rendered
    /\ Len(loops) < MaxRuns
    /\ WeekendOnly
    /\ LET zipList == zipListOf(zipCodes)
           run     == Len(loops) + 1
           n       == Len(zipList)
       IN  IF ~testMode /\ trim(apiKey) = ""
           THEN /\ error' = "Please enter your Visual Crossing API key or use Test Mode"
                /\ UNCHANGED <<apiKey, zipCodes, isProcessing, progress, logs, weatherData,
                               previewData, showPreview, testMode, loops>>
           ELSE IF \A k \in DOMAIN zipCodes : trim(zipCodes[k]) = ""
           THEN /\ error' = "Please enter at least one ZIP code"
                /\ UNCHANGED <<apiKey, zipCodes, isProcessing, progress, logs, weatherData,
                               previewData, showPreview, testMode, loops>>
           ELSE IF n = 0
           THEN /\ error' = "Please enter valid ZIP codes"
                /\ UNCHANGED <<apiKey, zipCodes, isProcessing, progress, logs, weatherData,
                               previewData, showPreview, testMode, loops>>
           ELSE /\ SubmittedZips + n <= MaxTotalZips
                /\ error' = Null
                /\ isProcessing' = TRUE
                /\ weatherData' = <<>>
                /\ previewData' = <<>>
                /\ showPreview' = FALSE
                /\ logs' = <<Note(IF testMode THEN "Running in Test Mode"
                                              ELSE "Starting weekend weather data collection", run),
                             Note("This Weekend", run),
                             Note("Next Weekend", run),
                             Note("Last Year", run),
                             LogLine("Processing ZIP codes", "", Msg("", n), run, "", 0)>>
                            \o beginLines(~testMode, zipList[1], run)
                /\ progress' = Progress(0, n, zipList[1], "processing")
                /\ loops' = Append(loops,
                                [zipList |-> zipList, testMode |-> testMode, results |-> <<>>,
                                 completed |-> 0, errors |-> 0, pc |-> beginPc(~testMode),
                                 served |-> <<>>, stopAt |-> 0])
                /\ UNCHANGED <<apiKey, zipCodes, testMode>>

\* a loop that awaits the rate-limit timer in test mode as well
AfterZipWaitsInTestMode(i, results, errorCount, served, lines) ==
    LET l         == loops[i]
        n         == Len(l.zipList)
        completed == l.completed + 1
        zip       == l.zipList[completed]
        l2        == [l EXCEPT !.results = results, !.errors = errorCount,
                               !.completed = completed, !.served = Append(@, served)]
    IN  IF completed < n
        THEN /\ loops' = [loops EXCEPT ![i] = [l2 EXCEPT !.pc = "wait"]]
             /\ logs' = logs \o lines \o <<Note("Waiting to respect API rate limits", i)>>
             /\ progress' = Progress(completed, n, zip, "completed")
             /\ UNCHANGED <<apiKey, zipCodes, isProcessing, weatherData, error,
                            previewData, showPreview, testMode>>
        ELSE IF completed < n
        THEN /\ loops' = [loops EXCEPT ![i] = [l2 EXCEPT !.pc = "sleep"]]
             /\ logs' = logs \o lines \o beginLines(FALSE, l.zipList[completed + 1], i)
             /\ progress' = Progress(completed, n, l.zipList[completed + 1], "processing")
             /\ UNCHANGED <<apiKey, zipCodes, isProcessing, weatherData, error,
                            previewData, showPreview, testMode>>
        ELSE /\ loops' = [loops EXCEPT ![i] = [l2 EXCEPT !.pc = "done"]]
             /\ weatherData' = results
             /\ previewData' = slice3(results)
             /\ showPreview' = TRUE
             /\ logs' = logs \o lines \o
                        <<IF Len(results) = n
                          THEN LogLine("Completed", "", Msg("", Len(results)), i, "", 0)
                          ELSE LogLine("Completed with errors", "", Msg("", errorCount), i, "", 0)>>
             /\ progress' = Progress(n, n, "Completed", "completed")
             /\ isProcessing' = FALSE
             /\ UNCHANGED <<apiKey, zipCodes, error, testMode>>

\* lines 637-680: what follows the try/catch of one ZIP.  In live mode with
\* ZIPs left the loop awaits the rate-limit timer; in test mode it runs on
\* into the next iteration; after the last ZIP it publishes the results.
AfterZip(i, results, errorCount, served, lines) ==
    LET l         == loops[i]
        n         == Len(l.zipList)
        completed == l.completed + 1
        zip       == l.zipList[completed]
        l2        == [l EXCEPT !.results = results, !.errors = errorCount,
                               !.completed = completed, !.served = Append(@, served)]
    IN  IF ~l.testMode /\ completed < n
        THEN /\ loops' = [loops EXCEPT ![i] = [l2 EXCEPT !.pc = "wait"]]
             /\ logs' = logs \o lines \o <<Note("Waiting to respect API rate limits", i)>>
             /\ progress' = Progress(completed, n, zip, "completed")
             /\ UNCHANGED <<apiKey, zipCodes, isProcessing, weatherData, error,
                            previewData, showPreview, testMode>>
        ELSE IF completed < n
        THEN /\ loops' = [loops EXCEPT ![i] = [l2 EXCEPT !.pc = "sleep"]]
             /\ logs' = logs \o lines \o beginLines(FALSE, l.zipList[completed + 1], i)
             /\ progress' = Progress(completed, n, l.zipList[completed + 1], "processing")
             /\ UNCHANGED <<apiKey, zipCodes, isProcessing, weatherData, error,
                            previewData, showPreview, testMode>>
        ELSE /\ loops' = [loops EXCEPT ![i] = [l2 EXCEPT !.pc = "done"]]
             /\ weatherData' = results
             /\ previewData' = slice3(results)
             /\ showPreview' = TRUE
             /\ logs' = logs \o lines \o
                        <<IF Len(results) = n
                          THEN LogLine("Completed", "", Msg("", Len(results)), i, "", 0)
                          ELSE LogLine("Completed with errors", "", Msg("", errorCount), i, "", 0)>>
             /\ progress' = Progress(n, n, "Completed", "completed")
             /\ isProcessing' = FALSE
             /\ UNCHANGED <<apiKey, zipCodes, error, testMode>>

\* lines 622-626: a result came back for the ZIP
zipSucceeded(i, origin) ==
    LET l   == loops[i]
        zip == l.zipList[l.completed + 1]
    IN  AfterZip(i, Append(l.results, WeatherRecord(zip, origin)), l.errors, TRUE,
                 <<ZipNote("success", zip, i)>>)

\* a loop whose error handler gives up: the Error reaches the outer catch
\* of lines 673-680 and the function returns
zipFailedAborts(i, msg, query, status) ==
    /\ loops' = [loops EXCEPT ![i].pc = "done", ![i].served = Append(@, FALSE)]
    /\ error' = msg.text
    /\ logs' = Append(logs, LogLine("Error", "", msg, i, query, status))
    /\ isProcessing' = FALSE
    /\ UNCHANGED <<apiKey, zipCodes, progress, weatherData, previewData, showPreview, testMode>>

\* lines 548-551 and 631-635: the Error thrown in fetchWeekendWeatherForZip
\* is rethrown by its catch and caught by the try around the ZIP
zipFailed(i, msg, query, status) ==
    LET l   == loops[i]
        zip == l.zipList[l.completed + 1]
    IN  AfterZip(i, l.results, l.errors + 1, FALSE,
                 <<FailureLine(zip, msg, i, query, status)>>)

\* the test-mode timer of line 616 fires: lines 617-626 and what follows
sampleReady(i) ==
    /\ loops[i].pc = "sleep"
    /\ zipSucceeded(i, "sample")
    /\ WeekendOnly

\* the historical fetch of line 476 settles: lines 477-494
historicalResponse(i, outcome) ==
    /\ loops[i].pc = "historical"
    /\ WeekendOnly
    /\ IF outcome = NetworkError
       THEN zipFailed(i, fetchRejected, "historical", outcome)
       ELSE IF ~ok(outcome)
       THEN zipFailed(i, historicalError(outcome), "historical", outcome)
       ELSE /\ loops' = [loops EXCEPT ![i].pc = "forecast"]
            /\ logs' = Append(logs, ZipNote("Fetching forecast data for",
                                            loops[i].zipList[loops[i].completed + 1], i))
            /\ UNCHANGED <<apiKey, zipCodes, isProcessing, progress, weatherData, error,
                           previewData, showPreview, testMode>>

\* the forecast fetch of line 494 settles: lines 495-547
forecastResponse(i, outcome) ==
    /\ loops[i].pc = "forecast"
    /\ WeekendOnly
    /\ IF outcome = NetworkError
       THEN zipFailed(i, fetchRejected, "forecast", outcome)
       ELSE IF ~ok(outcome)
       THEN zipFailed(i, forecastError(outcome), "forecast", outcome)
       ELSE zipSucceeded(i, "live")

\* the rate-limit timer of line 648 fires: the next iteration, lines 603-619
\* and 458-476, up to the historical fetch
rateLimitWaitOver(i) ==
    LET l   == loops[i]
        zip == l.zipList[l.completed + 1]
    IN  /\ l.pc = "wait"
        /\ loops' = [loops EXCEPT ![i].pc = "historical"]
        /\ logs' = logs \o beginLines(TRUE, zip, i)
        /\ progress' = Progress(l.completed, Len(l.zipList), zip, "processing")
        /\ UNCHANGED <<apiKey, zipCodes, isProcessing, weatherData, error,
                       previewData, showPreview, testMode>>
        /\ WeekendOnly

\* stopFetching, lines 683-686; the Stop button replaces Start while
\* isProcessing.  The loops read no flag: nothing of theirs changes.
stopFetching ==
    /\ isProcessing
    /\ isProcessing' = FALSE
    /\ logs' = Append(logs, Note("Process stopped by user", 0))
    /\ loops' = [i \in DOMAIN loops |->
                    IF Active(loops[i]) /\ loops[i].stopAt = 0
                    THEN [loops[i] EXCEPT !.stopAt = Started(loops[i])]
                    ELSE loops[i]]
    /\ UNCHANGED <<apiKey, zipCodes, progress, weatherData, error, previewData,
                   showPreview, testMode>>
    /\ WeekendOnly

\* the Test Mode checkbox, lines 1015-1021 (never disabled)
setTestMode ==
    /\ testMode' = ~testMode
    /\ UNCHANGED <<apiKey, zipCodes, isProcessing, progress, logs, weatherData, error,
                   previewData, showPreview, loops>>
    /\ WeekendOnly

\* the API key input, lines 1025-1038: rendered in live mode, disabled
\* while isProcessing
ApiKeys == {Line("", FALSE), Line("KEY", FALSE)}

setApiKey(key) ==
    /\ ~testMode
    /\ ~isProcessing
    /\ Len(loops) < MaxRuns         \* the inputs matter to a later run only
    /\ key # apiKey
    /\ apiKey' = key
    /\ UNCHANGED <<zipCodes, isProcessing, progress, logs, weatherData, error,
                   previewData, showPreview, testMode, loops>>
    /\ WeekendOnly

\* the ZIP textarea, lines 1228-1237: disabled while isProcessing
setZipCodes(lines) ==
    /\ ~isProcessing
    /\ Len(loops) < MaxRuns         \* the inputs matter to a later run only
    /\ lines # zipCodes
    /\ zipCodes' = lines
    /\ UNCHANGED <<apiKey, isProcessing, progress, logs, weatherData, error,
                   previewData, showPreview, testMode, loops>>
    /\ WeekendOnly

\* a clearAllData that leaves the preview rows in place
clearAllDataKeepsPreview ==
    /\ ~isProcessing
    /\ zipCodes' = <<>>
    /\ weatherData' = <<>>
    /\ logs' = <<Note("All data cleared", 0)>>
    /\ progress' = NoProgress
    /\ error' = Null
    /\ showPreview' = FALSE
    /\ UNCHANGED <<apiKey, isProcessing, testMode, loops, previewData>>
    /\ WeekendOnly

\* clearAllData, lines 947-956; its button is disabled while isProcessing
clearAllData ==
    /\ ~isProcessing
    /\ zipCodes' = <<>>
    /\ weatherData' = <<>>
    /\ previewData' = <<>>
    /\ logs' = <<Note("All data cleared", 0)>>
    /\ progress' = NoProgress
    /\ error' = Null
    /\ showPreview' = FALSE
    /\ UNCHANGED <<apiKey, isProcessing, testMode, loops>>
    /\ WeekendOnly

IdleWeekend == InitWeekend

-----------------------------------------------------------------------------
(* Claims about the weekend fetch loop (checked under SpecWeekend) *)

\* the lines of the log that loop i wrote
LinesOf(i) == SelectSeq(logs, LAMBDA ln : ln.run = i)

\* the log still begins with the header loop i wrote: neither a later
\* startFetching nor clearAllData has emptied it since
Intact(i) ==
    \E k \in DOMAIN logs :
        /\ logs[k].run = i
        /\ logs[k].kind \in {"Running in Test Mode", "Starting weekend weather data collection"}

ZipCodesOf(records) == [k \in DOMAIN records |-> records[k].zip_code]

\* C1 (as claimed): in every reachable state, also after Stop and Start
\* again, at most one ZIP code's provider request is in flight.
C1_OneRequestInFlight ==
    Cardinality({i \in DOMAIN loops : InFlight(loops[i])}) <= 1

\* C2 (as claimed): once Stop has been pressed while a loop was at its k-th
\* ZIP, that loop starts no ZIP after the k-th.
C2_NoZipStartedAfterStop ==
    \A i \in DOMAIN loops :
        loops[i].stopAt # 0 => Started(loops[i]) <= loops[i].stopAt

\* C3: a failure on one ZIP never aborts the run.  A loop that has returned
\* has processed every ZIP of its list; its results are the records of the
\* ZIPs data was delivered for, in input order; its error count is the
\* number of the others; while the log of the run is intact it names the
\* ZIPs in input order, with one failure line per failed ZIP and one success
\* line per served ZIP; and a run that was never restarted has published
\* exactly these results.
C3_FailureDoesNotAbort ==
    \A i \in DOMAIN loops :
        LET l == loops[i]
            n == Len(l.zipList)
            count(kind, zip) ==
                Cardinality({k \in DOMAIN logs :
                    logs[k].run = i /\ logs[k].kind = kind /\ logs[k].zip = zip})
        IN  l.pc = "done" =>
              /\ l.completed = n
              /\ Len(l.served) = n
              /\ ZipCodesOf(l.results) =
                     SelectSeq(l.zipList,
                               LAMBDA z : \E k \in 1..n : l.zipList[k] = z /\ l.served[k])
              /\ l.errors = Cardinality({k \in 1..n : ~l.served[k]})
              /\ Len(l.results) + l.errors = n
              /\ Intact(i) =>
                    /\ [k \in 1..n |->
                           SelectSeq(LinesOf(i),
                               LAMBDA ln : ln.kind = "Processing weekend data for")[k].zip]
                       = l.zipList
                    /\ \A k \in 1..n :
                           /\ count("failure", l.zipList[k]) = (IF l.served[k] THEN 0 ELSE 1)
                           /\ count("success", l.zipList[k]) = (IF l.served[k] THEN 1 ELSE 0)
              /\ (Intact(i) /\ Len(loops) = 1) => weatherData = l.results

\* C3 witness: one live run over three ZIPs whose second ZIP was answered
\* 429 has returned with the records of the first and the third ZIP
C3_Witness ==
    /\ Len(loops) = 1
    /\ loops[1].pc = "done"
    /\ ~loops[1].testMode
    /\ loops[1].zipList = SubSeq(SampleZips, 1, 3)
    /\ loops[1].served = <<TRUE, FALSE, TRUE>>
    /\ loops[1].errors = 1
    /\ ZipCodesOf(weatherData) = <<SampleZips[1], SampleZips[3]>>
    /\ \E k \in DOMAIN logs :
           logs[k].kind = "failure" /\ logs[k].zip = SampleZips[2] /\ logs[k].status = 429

\* the message the specification assigns to a response status
SpecifiedMessage(status, msg) ==
    IF status = 401 THEN msg.text = "Invalid API key - Please check your Visual Crossing API key"
    ELSE IF status = 429 THEN msg.text = "Rate limit exceeded - Please wait and try again"
    ELSE IF status = 400 THEN msg.text = "Invalid ZIP code or date range"
    ELSE msg.code = status

\* C6 (as claimed): a non-2xx response to either query of a ZIP is reported
\* with the message of its status: 401 invalid API key, 429 rate limit
\* exceeded, 400 invalid ZIP or date range, any other a generic error that
\* carries the status.
C6_StatusMappedForBothQueries ==
    \A k \in DOMAIN logs :
        (logs[k].kind = "failure" /\ logs[k].status # NetworkError) =>
            SpecifiedMessage(logs[k].status, logs[k].msg)

\* a fetch of loop i rejected in this step: the log gains the failure line
\* of a request that was given no HTTP status
FetchRejectedIn(i) ==
    /\ i \in DOMAIN loops
    /\ InFlight(loops[i])
    /\ \E k \in (Len(logs) + 1)..Len(logs') :
           logs'[k].kind = "failure" /\ logs'[k].run = i /\ logs'[k].status = NetworkError

\* weekend variant: the step in which a fetch rejects ends the loop before
\* any later ZIP of its list and sets the top-level error
WeekendRunEndsOnRejection ==
    \A i \in DOMAIN loops :
        FetchRejectedIn(i) =>
            /\ loops'[i].pc = "done"
            /\ Started(loops'[i]) = Started(loops[i])
            /\ error' # Null

\* standard variant: the step in which the POST rejects ends loading with
\* exactly one error message
StandardRunEndsOnRejection ==
    \A p \in DOMAIN posts :
        (posts[p].state = "pending" /\ posts'[p].status = NetworkError) =>
            /\ ~isLoading'
            /\ Len(errors') = 1

\* C20 (as claimed): in both variants a fetch that throws terminates the run
\* and surfaces a single top-level error message: in the weekend variant no
\* later ZIP of the list is processed and the top-level error is set, in the
\* standard variant loading ends with exactly one error message.
C20_FetchExceptionEndsRun ==
    [][WeekendRunEndsOnRejection /\ StandardRunEndsOnRejection]_vars

\* the standard variant's part of C20 on its own
StandardPartOfC20 == [][StandardRunEndsOnRejection]_vars

\* a step of clearAllData: the log changes and ends with the line that
\* announces the clear
ClearStep ==
    /\ logs' # logs
    /\ Len(logs') >= 1
    /\ logs'[Len(logs')].kind = "All data cleared"

\* what clearAllData leaves of the session state, the log aside
ClearedButLog ==
    /\ zipCodes' = <<>>
    /\ weatherData' = <<>>
    /\ previewData' = <<>>
    /\ progress' = NoProgress
    /\ error' = Null
    /\ showPreview' = FALSE

\* C21 (as claimed): right after clearAllData the ZIP input, results,
\* preview data, progress, error, preview visibility and the activity log
\* are all back to their initial empty values.
C21_ClearResetsAll == [][ClearStep => (ClearedButLog /\ logs' = <<>>)]_vars

\* C21 amended: right after clearAllData the ZIP input, results, preview
\* data, progress, error and preview visibility are back to their initial
\* empty values, and the activity log holds one line, the one that
\* announces the clear.
C21_ClearResetsAllButOneLogLine ==
    [][ClearStep => (ClearedButLog /\ Len(logs') = 1)]_vars

\* C21 witness: a run over two ZIPs has returned and published its results,
\* and clearAllData has emptied them since
C21_Witness ==
    /\ Len(loops) = 1
    /\ loops[1].pc = "done"
    /\ Len(loops[1].results) = 2
    /\ logs = <<Note("All data cleared", 0)>>
    /\ weatherData = <<>>
    /\ previewData = <<>>
    /\ zipCodes = <<>>
    /\ ~showPreview

\* loop i finished a ZIP in this step
ZipFinished(i) == loops'[i].completed = loops[i].completed + 1

\* the lines of the log that announce a rate-limit wait of loop i
WaitLines(i) == SelectSeq(LinesOf(i), LAMBDA ln : ln.kind = "Waiting to respect API rate limits")

\* C22: in live mode a rate-limit wait occurs between every two consecutive
\* ZIPs: the loop waits after ZIP i is finished and before the first request
\* of ZIP i+1; no wait follows the last ZIP, and no rate-limit wait is
\* inserted in test mode.
C22_WaitBetweenConsecutiveZips ==
    [][\A i \in DOMAIN loops :
          LET l    == loops[i]
              l2   == loops'[i]
              n    == Len(l.zipList)
          IN  /\ (ZipFinished(i) /\ ~l.testMode /\ l2.completed < n) => l2.pc = "wait"
              /\ (ZipFinished(i) /\ l2.completed = n) => l2.pc = "done"
              /\ (l2.pc = "wait" /\ l.pc # "wait") =>
                      (ZipFinished(i) /\ ~l.testMode /\ l2.completed < n)
              /\ (l2.pc = "historical" /\ l.pc # "historical") =>
                      (l.pc = "wait" /\ l2.completed = l.completed /\ l.completed >= 1)
              /\ l.pc = "wait" => (l2.pc \in {"wait", "historical"} /\ ~l.testMode)
              /\ l.testMode => l2.pc # "wait"]_vars

\* C22 witness: a live run over three ZIPs has returned and its log holds
\* two rate-limit waits
C22_Witness ==
    /\ Len(loops) = 1
    /\ ~loops[1].testMode
    /\ Len(loops[1].zipList) = 3
    /\ loops[1].pc = "done"
    /\ Intact(1)
    /\ Len(WaitLines(1)) = 2

\* the run the page shows: the one started last
LatestRun == Len(loops)

\* C23 (as claimed): during a run over n ZIPs every step of the run leaves
\* progress.current at the number of ZIPs finished, also when the ZIP
\* failed; progress.current never decreases, never exceeds progress.total,
\* which is n, and equals n when the run ends.
C23_ProgressCountsFinishedZips ==
    [][(LatestRun >= 1 /\ Len(loops') = LatestRun /\ Active(loops[LatestRun])) =>
          LET l  == loops[LatestRun]
              l2 == loops'[LatestRun]
              n  == Len(l.zipList)
          IN  /\ progress'.total = n
              /\ progress'.current <= n
              /\ progress'.current >= progress.current
              /\ l2 # l => progress'.current = l2.completed
              /\ l2.pc = "done" => progress'.current = n]_vars

\* the same for runs during which Stop was never pressed
ProgressCountsWhileNeverStopped ==
    [][(LatestRun >= 1 /\ Len(loops') = LatestRun /\ Active(loops[LatestRun])
          /\ \A i \in DOMAIN loops : loops[i].stopAt = 0 /\ loops'[i].stopAt = 0) =>
          LET l  == loops[LatestRun]
              l2 == loops'[LatestRun]
              n  == Len(l.zipList)
          IN  /\ progress'.total = n
              /\ progress'.current <= n
              /\ progress'.current >= progress.current
              /\ l2 # l => progress'.current = l2.completed
              /\ l2.pc = "done" => progress'.current = n]_vars

\* the loops of startFetching that have not returned
ActiveLoops == {i \in DOMAIN loops : Active(loops[i])}

\* C25 (as claimed): isProcessing is true whenever a loop of startFetching
\* still has ZIPs to process, so that the Start button is unavailable and
\* the inputs are disabled; at most one loop is active at a time; and the
\* results shown after a run are those of the last run started.
C25_ProcessingWhileLoopActive ==
    /\ ActiveLoops # {} => isProcessing
    /\ Cardinality(ActiveLoops) <= 1
    /\ (ActiveLoops = {} /\ showPreview) => weatherData = loops[Len(loops)].results

-----------------------------------------------------------------------------
(***************************************************************************)
(* Standard variant (src/app/page.tsx): ZIP validation.  A string is the   *)
(* sequence of its characters, each a one-character string.                *)
(***************************************************************************)

Digits == {"0", "1", "2", "3", "4", "5", "6", "7", "8", "9"}

\* the characters \s matches, of those the model types
WhiteSpace == {" ", "\n"}

\* the characters the split pattern [\n,\s] matches
SplitChars == {"\n", ","} \cup WhiteSpace

\* String.prototype.trim
RECURSIVE trimStart(_)
trimStart(s) == IF s # <<>> /\ Head(s) \in WhiteSpace THEN trimStart(Tail(s)) ELSE s

RECURSIVE trimEnd(_)
trimEnd(s) ==
    IF s # <<>> /\ s[Len(s)] \in WhiteSpace THEN trimEnd(SubSeq(s, 1, Len(s) - 1)) ELSE s

trimString(s) == trimEnd(trimStart(s))

\* ZIP_CODE_REGEX.test(s): /^\d{5}(-\d{4})?$/
ZIP_CODE_REGEX_test(s) ==
    \/ Len(s) = 5 /\ \A k \in 1..5 : s[k] \in Digits
    \/ /\ Len(s) = 10
       /\ \A k \in 1..5 : s[k] \in Digits
       /\ s[6] = "-"
       /\ \A k \in 7..10 : s[k] \in Digits

isValidZipCode(zip) == ZIP_CODE_REGEX_test(trimString(zip))

\* cleanZip.split('-')[0]: the characters before the first "-"
RECURSIVE beforeDash(_)
beforeDash(s) ==
    IF s = <<>> \/ Head(s) = "-" THEN <<>> ELSE <<Head(s)>> \o beforeDash(Tail(s))

\* valid.includes(x)
includes(arr, x) == \E k \in DOMAIN arr : arr[k] = x

\* a validateAndCleanZipCodes without the includes test of line 34
pushValidKeepsDuplicates(acc, cleanZip) ==
    [acc EXCEPT !.valid = Append(@, beforeDash(cleanZip))]

\* lines 31-36: a token that matches
pushValid(acc, cleanZip) ==
    LET fiveDigitZip == beforeDash(cleanZip)
    IN  IF includes(acc.valid, fiveDigitZip) THEN acc
        ELSE [acc EXCEPT !.valid = Append(@, fiveDigitZip)]

\* lines 37-39: a token that does not match
pushInvalid(acc, cleanZip) == [acc EXCEPT !.invalid = Append(@, cleanZip)]

\* validateAndCleanZipCodes, lines 25-43: the forEach, from the k-th token
RECURSIVE validateFrom(_, _, _)
validateFrom(zipArray, k, acc) ==
    IF k > Len(zipArray) THEN acc
    ELSE LET cleanZip == trimString(zipArray[k])
         IN  validateFrom(zipArray, k + 1,
                 IF cleanZip # <<>> /\ isValidZipCode(cleanZip) THEN pushValid(acc, cleanZip)
                 ELSE IF cleanZip # <<>> THEN pushInvalid(acc, cleanZip)
                 ELSE acc)

validateAndCleanZipCodes(zipArray) ==
    validateFrom(zipArray, 1, [valid |-> <<>>, invalid |-> <<>>])

\* String.prototype.split(/[\n,\s]+/): the pieces between the runs of
\* split characters, an empty piece before a leading and after a trailing run
RECURSIVE splitFrom(_, _, _, _)
splitFrom(s, k, piece, inRun) ==
    IF k > Len(s) THEN <<piece>>
    ELSE IF s[k] \in SplitChars
    THEN (IF inRun THEN splitFrom(s, k + 1, piece, TRUE)
                   ELSE <<piece>> \o splitFrom(s, k + 1, <<>>, TRUE))
    ELSE splitFrom(s, k + 1, Append(piece, s[k]), FALSE)

split(s) == splitFrom(s, 1, <<>>, FALSE)

\* validateZipCodes, lines 104-111
validateZipCodes(zipString) ==
    LET pieces   == split(zipString)
        trimmed  == [k \in DOMAIN pieces |-> trimString(pieces[k])]
        zipArray == SelectSeq(trimmed, LAMBDA zip : Len(zip) > 0)
    IN  validateAndCleanZipCodes(zipArray)

\* Array.prototype.join(", ")
RECURSIVE join(_)
join(arr) ==
    IF arr = <<>> THEN <<>>
    ELSE IF Len(arr) = 1 THEN arr[1]
    ELSE arr[1] \o <<",", " ">> \o join(Tail(arr))

\* what the user types into the ZIP textarea
T12345 == <<"1", "2", "3", "4", "5">>
T67890 == <<"6", "7", "8", "9", "0">>
Tabcde == <<"a", "b", "c", "d", "e">>
T1234  == <<"1", "2", "3", "4">>
TPlus4 == <<"1", "2", "3", "4", "5", "-", "6", "7", "8", "9">>
TShort == <<"6", "7", "8", "9", "0", "-", "1", "2">>

TypedZipCodes ==
    { <<>>,
      <<" ", "\n">>,
      <<",">>,
      T12345,
      T12345 \o <<"\n">> \o Tabcde \o <<"\n">> \o T67890,
      T12345 \o <<",", " ">> \o T67890 \o <<"\n">>,
      TPlus4 \o <<" ">> \o T12345 \o <<",">> \o T67890,
      <<" ">> \o T1234 \o <<",">> \o T12345 \o <<"\n", "\n">> \o TShort \o <<" ">> \o T1234 }

-----------------------------------------------------------------------------
(***************************************************************************)
(* Standard variant: component state, handleSubmit, the event stream and   *)
(* fetchResults.  handleSubmit suspends at the POST (a record of `posts`   *)
(* in state "pending"), fetchResults at the GET (a record of `previews`).  *)
(* The backend names the session of the p-th POST p.  An EventSource that  *)
(* has been closed dispatches no event.  History fields that the program   *)
(* does not hold: a stream's `received` (messages handled) and `failed`    *)
(* (its onerror has run), and a POST's `status` (how it was answered).     *)
(***************************************************************************)

\* a message of errors or validationErrors: the fixed text, the interpolated
\* string and the interpolated status
Message(text, detail, status) == [text |-> text, detail |-> detail, status |-> status]

\* `${update.zip_code}: ${update.message}`
zipMessage(update) == Message(update.message, update.zip_code, 0)

\* a field the server left out of an update
Undefined == -1

\* setProgress(0)
NoPercent == [num |-> 0, den |-> 1]

\* (update.current / update.total) * 100, as a fraction
progressPercent(update) == [num |-> update.current * 100, den |-> update.total]

\* the ProgressUpdate objects the stream of a POST with these ZIP codes delivers
Updates(zips) ==
    { [type |-> "progress", current |-> c, total |-> Len(zips), zip_code |-> zips[c],
       message |-> ""] : c \in DOMAIN zips }
    \cup { [type |-> "progress", current |-> Undefined, total |-> Undefined,
            zip_code |-> <<>>, message |-> "Starting"],
           [type |-> "error", current |-> Undefined, total |-> Undefined,
            zip_code |-> zips[1], message |-> "Invalid API key"],
           [type |-> "error", current |-> Undefined, total |-> Undefined,
            zip_code |-> <<>>, message |-> "Server error"],
           [type |-> "completed", current |-> Undefined, total |-> Undefined,
            zip_code |-> <<>>, message |-> ""],
           [type |-> "keepalive", current |-> Undefined, total |-> Undefined,
            zip_code |-> <<>>, message |-> ""] }

\* the rows /api/preview/<session> returns
previewRows(session) ==
    [k \in DOMAIN posts[session].zip_codes |->
        [zip_code |-> posts[session].zip_codes[k], session |-> session]]

\* the responses to the GET: rows, a body without data, a non-2xx status, a rejection
PreviewOutcomes == {"rows", "no data", "not ok", "rejected"}

\* what the user types into the API key field
TypedApiKeys == {Line("", FALSE), Line("", TRUE), Line("KEY", TRUE)}

InitStandard ==
    /\ sApiKey = Line("", FALSE)
    /\ sZipCodes = <<>>
    /\ isLoading = FALSE
    /\ sProgress = NoPercent
    /\ currentZip = <<>>
    /\ sessionId = 0
    /\ sWeatherData = <<>>
    /\ errors = <<>>
    /\ validationErrors = <<>>
    /\ isCompleted = FALSE
    /\ totalZips = 0
    /\ processedZips = 0
    /\ eventSourceRef = 0
    /\ posts = <<>>
    /\ streams = <<>>
    /\ previews = <<>>
    /\ lastHandler = "none"

IdleStandard == InitStandard

StandardOnly == UNCHANGED <<dateVars, zipVars, wkVars, valVars, escVars, expVars, smpVars, qryVars>>

\* onChange of the API key input, disabled while loading
sSetApiKey(key) ==
    /\ ~isLoading
    /\ Len(posts) < MaxSubmits
    /\ sApiKey' = key
    /\ lastHandler' = "setApiKey"
    /\ UNCHANGED <<sZipCodes, isLoading, sProgress, currentZip, sessionId, sWeatherData,
                   errors, validationErrors, isCompleted, totalZips, processedZips,
                   eventSourceRef, posts, streams, previews>>
    /\ StandardOnly

\* onChange of the ZIP textarea, disabled while loading
sSetZipCodes(typed) ==
    /\ ~isLoading
    /\ Len(posts) < MaxSubmits
    /\ sZipCodes' = typed
    /\ lastHandler' = "setZipCodes"
    /\ UNCHANGED <<sApiKey, isLoading, sProgress, currentZip, sessionId, sWeatherData,
                   errors, validationErrors, isCompleted, totalZips, processedZips,
                   eventSourceRef, posts, streams, previews>>
    /\ StandardOnly

\* a handleSubmit that lets a list with offending tokens through
rejectsNothing(invalidZips) == FALSE

\* line 129: the submission is turned down
rejects(invalidZips) == Len(invalidZips) > 0

\* a submit button that stays enabled while loading
submitEnabledWhileLoading == trim(sApiKey) # "" /\ trimString(sZipCodes) # <<>>

\* the submit button: disabled={isLoading || !apiKey.trim() || !zipCodes.trim()}
submitEnabled == ~isLoading /\ trim(sApiKey) # "" /\ trimString(sZipCodes) # <<>>

\* handleSubmit up to its return or to the await of the POST, lines 113-161
handleSubmit ==
    /\ submitEnabled
    /\ lastHandler' = "handleSubmit"
    /\ LET checked     == validateZipCodes(sZipCodes)
           validZips   == checked.valid
           invalidZips == checked.invalid
           turnedDown(messages) ==
               /\ validationErrors' = messages
               /\ UNCHANGED <<errors, sWeatherData, isLoading, isCompleted, sProgress,
                              currentZip, totalZips, processedZips, posts>>
       IN  IF trim(sApiKey) = ""
           THEN turnedDown(<<Message("Please enter your OpenWeatherMap API key", <<>>, 0)>>)
           ELSE IF trimString(sZipCodes) = <<>>
           THEN turnedDown(<<Message("Please enter ZIP codes", <<>>, 0)>>)
           ELSE IF rejects(invalidZips)
           THEN turnedDown(<<Message("Invalid ZIP codes found: ", join(invalidZips), 0),
                             Message("Please use 5-digit ZIP codes (e.g., 12345 or 12345-6789)",
                                     <<>>, 0)>>)
           ELSE IF Len(validZips) = 0
           THEN turnedDown(<<Message("No valid ZIP codes found", <<>>, 0)>>)
           ELSE /\ Len(posts) < MaxSubmits
                /\ validationErrors' = <<>>
                /\ errors' = <<>>
                /\ sWeatherData' = <<>>
                /\ isLoading' = TRUE
                /\ isCompleted' = FALSE
                /\ sProgress' = NoPercent
                /\ currentZip' = <<>>
                /\ totalZips' = Len(validZips)
                /\ processedZips' = 0
                /\ posts' = Append(posts, [api_key |-> trim(sApiKey), zip_codes |-> validZips,
                                           state |-> "pending", status |-> Undefined])
    /\ UNCHANGED <<sApiKey, sZipCodes, sessionId, eventSourceRef, streams, previews>>
    /\ StandardOnly

\* the responses to the POST: 2xx with a session id, a non-2xx status, a rejection
PostOutcomes == {200, 500, NetworkError}

\* a handleSubmit without the test of response.ok
postSucceededUnchecked(outcome) == outcome # NetworkError

\* lines 147-161: the fetch resolved and the response is ok
postSucceeded(outcome) == outcome # NetworkError /\ ok(outcome)

\* handleSubmit from the POST's response to its end, lines 159-216
postResponse(p, outcome) ==
    /\ posts[p].state = "pending"
    /\ lastHandler' = "postResponse"
    /\ posts' = [posts EXCEPT ![p].state = "answered", ![p].status = outcome]
    /\ IF postSucceeded(outcome)
       THEN /\ sessionId' = p
            /\ streams' = Append(streams, [session |-> p, state |-> "open", received |-> 0,
                                           failed |-> FALSE])
            /\ eventSourceRef' = Len(streams) + 1
            /\ UNCHANGED <<isLoading, errors>>
       ELSE /\ isLoading' = FALSE
            /\ errors' = <<IF outcome = NetworkError
                           THEN Message("Error: Failed to fetch", <<>>, 0)
                           ELSE Message("Error: HTTP error! status: ", <<>>, outcome)>>
            /\ UNCHANGED <<sessionId, streams, eventSourceRef>>
    /\ UNCHANGED <<sApiKey, sZipCodes, sProgress, currentZip, sWeatherData, validationErrors,
                   isCompleted, totalZips, processedZips, previews>>
    /\ StandardOnly

\* an eventSource.onerror that leaves the stream open
closeOnErrorOmitted(stream) == [stream EXCEPT !.failed = TRUE]

\* line 210: eventSource.close() of onerror
closeOnError(stream) == [stream EXCEPT !.failed = TRUE, !.state = "closed"]

\* an onmessage whose completed case leaves out eventSource.close()
onmessageLeavesStreamOpen(s, update) ==
    /\ streams[s].state = "open"
    /\ streams[s].received < MaxEvents
    /\ lastHandler' = "onmessage"
    /\ LET received == [streams EXCEPT ![s].received = @ + 1]
       IN  CASE update.type = "progress" ->
                    /\ IF update.current # Undefined /\ update.total # Undefined
                       THEN /\ sProgress' = progressPercent(update)
                            /\ processedZips' = update.current
                            /\ currentZip' = update.zip_code
                       ELSE UNCHANGED <<sProgress, processedZips, currentZip>>
                    /\ streams' = received
                    /\ UNCHANGED <<errors, isCompleted, isLoading, previews>>
             [] update.type = "error" ->
                    /\ IF update.zip_code # <<>> /\ update.message # ""
                       THEN errors' = Append(errors, zipMessage(update))
                       ELSE UNCHANGED errors
                    /\ streams' = received
                    /\ UNCHANGED <<sProgress, processedZips, currentZip, isCompleted,
                                   isLoading, previews>>
             [] update.type = "completed" ->
                    /\ isCompleted' = TRUE
                    /\ isLoading' = FALSE
                    /\ currentZip' = <<>>
                    /\ streams' = received
                    /\ previews' = Append(previews, [session |-> streams[s].session,
                                                     state |-> "pending"])
                    /\ UNCHANGED <<sProgress, processedZips, errors>>
             [] OTHER ->
                    /\ streams' = received
                    /\ UNCHANGED <<sProgress, processedZips, currentZip, errors, isCompleted,
                                   isLoading, previews>>
    /\ UNCHANGED <<sApiKey, sZipCodes, sessionId, sWeatherData, validationErrors, totalZips,
                   eventSourceRef, posts>>
    /\ StandardOnly

\* eventSource.onmessage, lines 171-205, fetchResults up to its await included
onmessage(s, update) ==
    /\ streams[s].state = "open"
    /\ streams[s].received < MaxEvents
    /\ lastHandler' = "onmessage"
    /\ LET received == [streams EXCEPT ![s].received = @ + 1]
       IN  CASE update.type = "progress" ->
                    /\ IF update.current # Undefined /\ update.total # Undefined
                       THEN /\ sProgress' = progressPercent(update)
                            /\ processedZips' = update.current
                            /\ currentZip' = update.zip_code
                       ELSE UNCHANGED <<sProgress, processedZips, currentZip>>
                    /\ streams' = received
                    /\ UNCHANGED <<errors, isCompleted, isLoading, previews>>
             [] update.type = "error" ->
                    /\ IF update.zip_code # <<>> /\ update.message # ""
                       THEN errors' = Append(errors, zipMessage(update))
                       ELSE UNCHANGED errors
                    /\ streams' = received
                    /\ UNCHANGED <<sProgress, processedZips, currentZip, isCompleted,
                                   isLoading, previews>>
             [] update.type = "completed" ->
                    /\ isCompleted' = TRUE
                    /\ isLoading' = FALSE
                    /\ currentZip' = <<>>
                    /\ streams' = [received EXCEPT ![s].state = "closed"]
                    /\ previews' = Append(previews, [session |-> streams[s].session,
                                                     state |-> "pending"])
                    /\ UNCHANGED <<sProgress, processedZips, errors>>
             [] OTHER ->
                    /\ streams' = received
                    /\ UNCHANGED <<sProgress, processedZips, currentZip, errors, isCompleted,
                                   isLoading, previews>>
    /\ UNCHANGED <<sApiKey, sZipCodes, sessionId, sWeatherData, validationErrors, totalZips,
                   eventSourceRef, posts>>
    /\ StandardOnly

\* eventSource.onerror, lines 207-211
onerror(s) ==
    /\ streams[s].state = "open"
    /\ lastHandler' = "onerror"
    /\ isLoading' = FALSE
    /\ errors' = Append(errors, Message("Connection error occurred", <<>>, 0))
    /\ streams' = [streams EXCEPT ![s] = closeOnError(@)]
    /\ UNCHANGED <<sApiKey, sZipCodes, sProgress, currentZip, sessionId, sWeatherData,
                   validationErrors, isCompleted, totalZips, processedZips, eventSourceRef,
                   posts, previews>>
    /\ StandardOnly

\* fetchResults from the GET's response to its end, lines 221-228
previewResponse(v, outcome) ==
    /\ previews[v].state = "pending"
    /\ lastHandler' = "previewResponse"
    /\ previews' = [previews EXCEPT ![v].state = "answered"]
    /\ CASE outcome = "rows"     -> /\ sWeatherData' = previewRows(previews[v].session)
                                    /\ UNCHANGED errors
         [] outcome = "no data"  -> /\ sWeatherData' = <<>>
                                    /\ UNCHANGED errors
         [] outcome = "not ok"   -> UNCHANGED <<sWeatherData, errors>>
         [] outcome = "rejected" -> /\ errors' = Append(errors,
                                            Message("Failed to fetch results", <<>>, 0))
                                    /\ UNCHANGED sWeatherData
    /\ UNCHANGED <<sApiKey, sZipCodes, isLoading, sProgress, currentZip, sessionId,
                   validationErrors, isCompleted, totalZips, processedZips, eventSourceRef,
                   posts, streams>>
    /\ StandardOnly

-----------------------------------------------------------------------------
(* validateAndCleanZipCodes of the standard variant as a state machine *)

NotCalled == [none |-> TRUE]

TOther == <<"6", "7", "8", "9", "0", "-", "0", "0", "0", "1">>

\* the tokens a caller passes: matching ones, with and without extension,
\* one with a blank before it, and ones that do not match
Tokens == {T12345, T67890, TPlus4, TOther, <<" ">> \o T12345, Tabcde, T1234, TShort}

RECURSIVE SeqsUpTo(_, _)
SeqsUpTo(S, n) ==
    IF n = 0 THEN {<<>>}
    ELSE LET shorter == SeqsUpTo(S, n - 1)
         IN  shorter \cup {Append(s, x) : s \in {q \in shorter : Len(q) = n - 1}, x \in S}

InitValidate ==
    /\ tokenList \in SeqsUpTo(Tokens, MaxTokens)
    /\ cleaned = NotCalled

IdleValidate ==
    /\ tokenList = <<>>
    /\ cleaned = NotCalled

ValidateAndClean ==
    /\ cleaned = NotCalled
    /\ cleaned' = validateAndCleanZipCodes(tokenList)
    /\ UNCHANGED tokenList
    /\ UNCHANGED <<dateVars, zipVars, wkVars, stdVars, escVars, expVars, smpVars, qryVars>>

-----------------------------------------------------------------------------
(***************************************************************************)
(* Weekend variant: the CSV exporter (downloadCsv).  A value handed to     *)
(* escapeCSV is null, undefined, a string or a number.                     *)
(***************************************************************************)

NullValue == [kind |-> "null", text |-> <<>>, number |-> 0]

UndefinedValue == [kind |-> "undefined", text |-> <<>>, number |-> 0]

StringValue(s) == [kind |-> "string", text |-> s, number |-> 0]

NumberValue(n) == [kind |-> "number", text |-> <<>>, number |-> n]

DigitChars == <<"0", "1", "2", "3", "4", "5", "6", "7", "8", "9">>

\* Number.prototype.toString of an integer
RECURSIVE naturalToString(_)
naturalToString(n) ==
    IF n < 10 THEN <<DigitChars[n + 1]>>
    ELSE Append(naturalToString(n \div 10), DigitChars[(n % 10) + 1])

numberToString(n) == IF n < 0 THEN <<"-">> \o naturalToString(0 - n) ELSE naturalToString(n)

\* String(value) of a value that is neither null nor undefined
String(value) == IF value.kind = "number" THEN numberToString(value.number) ELSE value.text

\* a replace without the g flag: only the first double quote is doubled
RECURSIVE replaceFirstQuote(_)
replaceFirstQuote(s) ==
    IF s = <<>> THEN <<>>
    ELSE IF Head(s) = "\"" THEN <<"\"", "\"">> \o Tail(s)
    ELSE <<Head(s)>> \o replaceFirstQuote(Tail(s))

\* stringValue.replace(/"/g, '""')
RECURSIVE replaceQuotes(_)
replaceQuotes(s) ==
    IF s = <<>> THEN <<>>
    ELSE (IF Head(s) = "\"" THEN <<"\"", "\"">> ELSE <<Head(s)>>) \o replaceQuotes(Tail(s))

\* escapeCSV, lines 692-699
escapeCSV(value) ==
    IF value.kind \in {"null", "undefined"} THEN <<>>
    ELSE LET stringValue == String(value)
         IN  IF includes(stringValue, ",") \/ includes(stringValue, "\"")
                \/ includes(stringValue, "\n")
             THEN <<"\"">> \o replaceQuotes(stringValue) \o <<"\"">>
             ELSE stringValue

\* the characters of the strings handed to escapeCSV
FieldChars == {"a", ",", "\"", "\n"}

\* the values handed to escapeCSV
FieldValues ==
    {NullValue, UndefinedValue, NumberValue(0), NumberValue(72), NumberValue(0 - 5)}
    \cup {StringValue(s) : s \in SeqsUpTo(FieldChars, MaxFieldLen)}

InitEscape ==
    /\ csvValue \in FieldValues
    /\ csvField = NotCalled

IdleEscape ==
    /\ csvValue = NullValue
    /\ csvField = NotCalled

EscapeCSV ==
    /\ csvField = NotCalled
    /\ csvField' = [text |-> escapeCSV(csvValue)]
    /\ UNCHANGED csvValue
    /\ UNCHANGED <<dateVars, zipVars, wkVars, stdVars, valVars, expVars, smpVars, qryVars>>

-----------------------------------------------------------------------------
(***************************************************************************)
(* downloadCsv, lines 689-815.  The degree sign is the one character       *)
(* written "deg".  A weather record keeps its 27 per-day fields as `days`, *)
(* nine records [date, high, description] in the order of the interface:   *)
(* this Friday, Saturday, Sunday, last year's three, next weekend's three. *)
(***************************************************************************)

\* the headers array, lines 702-738
headers ==
    <<
      <<"Z", "I", "P", " ", "C", "o", "d", "e">>,
      <<"C", "i", "t", "y", " ", "N", "a", "m", "e">>,
      <<"S", "t", "a", "t", "e">>,
      <<"T", "h", "i", "s", " ", "F", "r", "i", "d", "a", "y", " ", "D", "a", "t", "e">>,
      <<"T", "h", "i", "s", " ", "F", "r", "i", " ", "T", "e", "m", "p", " ", "deg", "F">>,
      <<"T", "h", "i", "s", " ", "F", "r", "i", "d", "a", "y", " ", "W", "e", "a", "t", "h",
        "e", "r", " ", "C", "o", "n", "d", "i", "t", "i", "o", "n", "s">>,
      <<"T", "h", "i", "s", " ", "S", "a", "t", "u", "r", "d", "a", "y", " ", "D", "a", "t",
        "e">>,
      <<"T", "h", "i", "s", " ", "S", "a", "t", " ", "T", "e", "m", "p", " ", "deg", "F">>,
      <<"T", "h", "i", "s", " ", "S", "a", "t", "u", "r", "d", "a", "y", " ", "W", "e", "a",
        "t", "h", "e", "r", " ", "C", "o", "n", "d", "i", "t", "i", "o", "n", "s">>,
      <<"T", "h", "i", "s", " ", "S", "u", "n", "d", "a", "y", " ", "D", "a", "t", "e">>,
      <<"T", "h", "i", "s", " ", "S", "u", "n", " ", "T", "e", "m", "p", " ", "deg", "F">>,
      <<"T", "h", "i", "s", " ", "S", "u", "n", "d", "a", "y", " ", "W", "e", "a", "t", "h",
        "e", "r", " ", "C", "o", "n", "d", "i", "t", "i", "o", "n", "s">>,
      <<"L", "a", "s", "t", " ", "Y", "e", "a", "r", " ", "F", "r", "i", "d", "a", "y", " ",
        "D", "a", "t", "e">>,
      <<"L", "a", "s", "t", " ", "Y", "r", " ", "F", "r", "i", " ", "T", "e", "m", "p", " ",
        "deg", "F">>,
      <<"L", "a", "s", "t", " ", "Y", "e", "a", "r", " ", "F", "r", "i", "d", "a", "y", " ",
        "W", "e", "a", "t", "h", "e", "r", " ", "C", "o", "n", "d", "i", "t", "i", "o", "n",
        "s">>,
      <<"L", "a", "s", "t", " ", "Y", "e", "a", "r", " ", "S", "a", "t", "u", "r", "d", "a",
        "y", " ", "D", "a", "t", "e">>,
      <<"L", "a", "s", "t", " ", "Y", "r", " ", "S", "a", "t", " ", "T", "e", "m", "p", " ",
        "deg", "F">>,
      <<"L", "a", "s", "t", " ", "Y", "e", "a", "r", " ", "S", "a", "t", "u", "r", "d", "a",
        "y", " ", "W", "e", "a", "t", "h", "e", "r", " ", "C", "o", "n", "d", "i", "t", "i",
        "o", "n", "s">>,
      <<"L", "a", "s", "t", " ", "Y", "e", "a", "r", " ", "S", "u", "n", "d", "a", "y", " ",
        "D", "a", "t", "e">>,
      <<"L", "a", "s", "t", " ", "Y", "r", " ", "S", "u", "n", " ", "T", "e", "m", "p", " ",
        "deg", "F">>,
      <<"L", "a", "s", "t", " ", "Y", "e", "a", "r", " ", "S", "u", "n", "d", "a", "y", " ",
        "W", "e", "a", "t", "h", "e", "r", " ", "C", "o", "n", "d", "i", "t", "i", "o", "n",
        "s">>,
      <<"N", "e", "x", "t", " ", "F", "r", "i", "d", "a", "y", " ", "D", "a", "t", "e">>,
      <<"N", "e", "x", "t", " ", "F", "r", "i", " ", "T", "e", "m", "p", " ", "deg", "F">>,
      <<"N", "e", "x", "t", " ", "F", "r", "i", "d", "a", "y", " ", "W", "e", "a", "t", "h",
        "e", "r", " ", "C", "o", "n", "d", "i", "t", "i", "o", "n", "s">>,
      <<"N", "e", "x", "t", " ", "S", "a", "t", "u", "r", "d", "a", "y", " ", "D", "a", "t",
        "e">>,
      <<"N", "e", "x", "t", " ", "S", "a", "t", " ", "T", "e", "m", "p", " ", "deg", "F">>,
      <<"N", "e", "x", "t", " ", "S", "a", "t", "u", "r", "d", "a", "y", " ", "W", "e", "a",
        "t", "h", "e", "r", " ", "C", "o", "n", "d", "i", "t", "i", "o", "n", "s">>,
      <<"N", "e", "x", "t", " ", "S", "u", "n", "d", "a", "y", " ", "D", "a", "t", "e">>,
      <<"N", "e", "x", "t", " ", "S", "u", "n", " ", "T", "e", "m", "p", " ", "deg", "F">>,
      <<"N", "e", "x", "t", " ", "S", "u", "n", "d", "a", "y", " ", "W", "e", "a", "t", "h",
        "e", "r", " ", "C", "o", "n", "d", "i", "t", "i", "o", "n", "s">> >>

\* the preamble, lines 805-808
ReportTitle == <<"W", "e", "e", "k", "e", "n", "d", " ", "W", "e", "a", "t", "h", "e", "r",
    " ", "C", "o", "m", "p", "a", "r", "i", "s", "o", "n", " ", "R", "e", "p", "o", "r",
    "t">>

GeneratedLabel == <<"G", "e", "n", "e", "r", "a", "t", "e", "d", ":", " ">>

DataSourceLabel == <<"D", "a", "t", "a", " ", "S", "o", "u", "r", "c", "e", ":", " ">>

LocationsLabel == <<"L", "o", "c", "a", "t", "i", "o", "n", "s", ":", " ">>

\* line 801
SampleData == <<"S", "a", "m", "p", "l", "e", " ", "D", "a", "t", "a">>

LiveWeatherData == <<"L", "i", "v", "e", " ", "W", "e", "a", "t", "h", "e", "r", " ", "D",
    "a", "t", "a">>

\* the suffix of a temperature cell
DegreesF == <<"deg", "F">>

\* line 814
BOM == <<"BOM">>

\* the month names of toLocaleDateString("en-US", {month: "short"})
MonthShort ==
    <<<<"J", "a", "n">>,
      <<"F", "e", "b">>,
      <<"M", "a", "r">>,
      <<"A", "p", "r">>,
      <<"M", "a", "y">>,
      <<"J", "u", "n">>,
      <<"J", "u", "l">>,
      <<"A", "u", "g">>,
      <<"S", "e", "p">>,
      <<"O", "c", "t">>,
      <<"N", "o", "v">>,
      <<"D", "e", "c">>>>

\* formatShortDate, lines 349-355: "Jan 5, 2019"
formatShortDate(date) ==
    MonthShort[date.m] \o <<" ">> \o numberToString(date.d) \o <<",", " ">>
        \o numberToString(date.y)

\* Date.prototype.toLocaleDateString("en-US"): "1/5/2019"
toLocaleDateString(date) ==
    numberToString(date.m) \o <<"/">> \o numberToString(date.d) \o <<"/">>
        \o numberToString(date.y)

\* Array.prototype.join(separator)
RECURSIVE joinBy(_, _)
joinBy(arr, separator) ==
    IF arr = <<>> THEN <<>>
    ELSE IF Len(arr) = 1 THEN arr[1]
    ELSE arr[1] \o separator \o joinBy(Tail(arr), separator)

\* a row without the degree suffix: the temperature is written as the number
temperatureCellBare(high) == NumberValue(high)

\* `${row.this_friday_high}degF` and the like, lines 764-792
temperatureCell(high) == StringValue(numberToString(high) \o DegreesF)

\* the value handed to escapeCSV for column c of a data row, lines 758-793
cellValue(row, c) ==
    IF c = 1 THEN StringValue(row.zip_code)
    ELSE IF c = 2 THEN StringValue(row.city)
    ELSE IF c = 3 THEN StringValue(row.state)
    ELSE LET day == row.days[((c - 4) \div 3) + 1]
         IN  IF (c - 4) % 3 = 0 THEN StringValue(day.date)
             ELSE IF (c - 4) % 3 = 1 THEN temperatureCell(day.high)
             ELSE StringValue(day.description)

\* csvRows, lines 743-797
csvRows(data) ==
    <<joinBy([c \in DOMAIN headers |-> escapeCSV(StringValue(headers[c]))], <<",">>),
      joinBy([c \in DOMAIN headers |-> <<>>], <<",">>)>>
    \o [r \in DOMAIN data |->
           joinBy([c \in DOMAIN headers |-> escapeCSV(cellValue(data[r], c))], <<",">>)]

\* line 801
dataSource(mode) == IF mode THEN SampleData ELSE LiveWeatherData

\* BOM + csvContent, lines 803-815
csvBlob(data, mode, now) ==
    BOM \o joinBy(<<ReportTitle,
                    GeneratedLabel \o toLocaleDateString(now),
                    DataSourceLabel \o dataSource(mode),
                    LocationsLabel \o numberToString(Len(data)),
                    <<>>>> \o csvRows(data),
                  <<"\n">>)

\* downloadCsv up to the creation of the Blob; no file for an empty list
downloadCsvFile(data, mode, now) ==
    IF Len(data) = 0 THEN [file |-> FALSE, text |-> <<>>]
    ELSE [file |-> TRUE, text |-> csvBlob(data, mode, now)]

\* the records exported: ZIP codes as typed (any characters but a newline),
\* the city with and without a comma, days with plain and with awkward
\* descriptions and with temperatures below and above zero
ExportZips == {<<"1", "0", "0", "0", "1">>, <<"1", ",", "\"", "2">>}

ExportCities ==
    {<<"W", "a", "s", "h", "i", "n", "g", "t", "o", "n", ",", " ", "D", ".", "C", ".">>,
     <<"N", "e", "w", " ", "Y", "o", "r", "k">>}

PlainDay == [date |-> formatShortDate([y |-> 2019, m |-> 1, d |-> 5]), high |-> 72,
             description |-> <<"S", "u", "n", "n", "y">>]

AwkwardDay == [date |-> formatShortDate([y |-> 2020, m |-> 12, d |-> 25]), high |-> 0 - 5,
               description |-> <<"R", "a", "i", "n", ",", " ", "\"", "h", "e", "a", "v", "y", "\"", "\n", "f", "o", "g">>]

ExportDays == {[k \in 1..9 |-> PlainDay],
               [k \in 1..9 |-> IF k % 2 = 1 THEN AwkwardDay ELSE PlainDay]}

ExportRecords ==
    {[zip_code |-> z, city |-> c, state |-> <<"D", "C">>, days |-> ds] :
        z \in ExportZips, c \in ExportCities, ds \in ExportDays}

InitExport ==
    /\ exportData \in SeqsUpTo(ExportRecords, MaxRows)
    /\ exportTestMode \in BOOLEAN
    /\ exportNow = [y |-> 2019, m |-> 1, d |-> 5]
    /\ csvContent = NotCalled

IdleExport ==
    /\ exportData = <<>>
    /\ exportTestMode = TRUE
    /\ exportNow = [y |-> 2019, m |-> 1, d |-> 5]
    /\ csvContent = NotCalled

DownloadCsv ==
    /\ csvContent = NotCalled
    /\ csvContent' = downloadCsvFile(exportData, exportTestMode, exportNow)
    /\ UNCHANGED <<exportData, exportTestMode, exportNow>>
    /\ UNCHANGED <<dateVars, zipVars, wkVars, stdVars, valVars, escVars, smpVars, qryVars>>

-----------------------------------------------------------------------------
(***************************************************************************)
(* generateSampleWeekendData, lines 362-453.  The record it returns holds  *)
(* the ZIP code, the city, the state and nine days, in the order the       *)
(* record names them: this Friday, Saturday, Sunday, last year's Friday,   *)
(* Saturday, Sunday, next Friday, Saturday, Sunday.                        *)
(***************************************************************************)

\* the cities table, lines 363-374
cities ==
    {[zip |-> <<"1", "0", "0", "0", "1">>, name |-> <<"N", "e", "w", " ", "Y", "o", "r", "k">>, state |-> <<"N", "Y">>],
     [zip |-> <<"9", "0", "2", "1", "0">>, name |-> <<"B", "e", "v", "e", "r", "l", "y", " ", "H", "i", "l", "l", "s">>, state |-> <<"C", "A">>],
     [zip |-> <<"6", "0", "6", "0", "1">>, name |-> <<"C", "h", "i", "c", "a", "g", "o">>, state |-> <<"I", "L">>],
     [zip |-> <<"3", "3", "1", "0", "1">>, name |-> <<"M", "i", "a", "m", "i">>, state |-> <<"F", "L">>],
     [zip |-> <<"0", "2", "1", "0", "1">>, name |-> <<"B", "o", "s", "t", "o", "n">>, state |-> <<"M", "A">>],
     [zip |-> <<"4", "8", "0", "0", "1">>, name |-> <<"A", "l", "g", "o", "n", "a", "c">>, state |-> <<"M", "I">>],
     [zip |-> <<"7", "7", "0", "0", "1">>, name |-> <<"H", "o", "u", "s", "t", "o", "n">>, state |-> <<"T", "X">>],
     [zip |-> <<"3", "0", "3", "0", "1">>, name |-> <<"A", "t", "l", "a", "n", "t", "a">>, state |-> <<"G", "A">>],
     [zip |-> <<"9", "8", "1", "0", "1">>, name |-> <<"S", "e", "a", "t", "t", "l", "e">>, state |-> <<"W", "A">>],
     [zip |-> <<"8", "5", "0", "0", "1">>, name |-> <<"P", "h", "o", "e", "n", "i", "x">>, state |-> <<"A", "Z">>]}

\* lines 376-387
weatherDescriptions ==
    <<<<"S", "u", "n", "n", "y">>,
      <<"P", "a", "r", "t", "l", "y", " ", "C", "l", "o", "u", "d", "y">>,
      <<"C", "l", "o", "u", "d", "y">>,
      <<"L", "i", "g", "h", "t", " ", "R", "a", "i", "n">>,
      <<"H", "e", "a", "v", "y", " ", "R", "a", "i", "n">>,
      <<"T", "h", "u", "n", "d", "e", "r", "s", "t", "o", "r", "m", "s">>,
      <<"S", "n", "o", "w">>,
      <<"F", "o", "g">>,
      <<"C", "l", "e", "a", "r">>,
      <<"O", "v", "e", "r", "c", "a", "s", "t">>>>

\* cities[zipCode] || {name: `City ${zipCode}`, state: "XX"}, lines 389-392
cityData(zipCode) ==
    IF \E c \in cities : c.zip = zipCode
    THEN LET c == CHOOSE c \in cities : c.zip = zipCode
         IN  [name |-> c.name, state |-> c.state]
    ELSE [name |-> <<"C", "i", "t", "y", " ">> \o zipCode, state |-> <<"X", "X">>]

\* the digits a string begins with
RECURSIVE leadingDigits(_)
leadingDigits(s) ==
    IF s = <<>> \/ Head(s) \notin Digits THEN <<>>
    ELSE <<Head(s)>> \o leadingDigits(Tail(s))

\* the value of a string of decimal digits
RECURSIVE digitsValue(_)
digitsValue(s) ==
    IF s = <<>> THEN 0
    ELSE 10 * digitsValue(SubSeq(s, 1, Len(s) - 1))
         + (CHOOSE d \in 0..9 : DigitChars[d + 1] = s[Len(s)])

\* the result of Number.parseInt for a string no number begins
NaN == 0 - 1

\* Number.parseInt of a string without leading white space or sign: the
\* number its leading digits spell, NaN if it begins with no digit
parseInt(s) == IF leadingDigits(s) = <<>> THEN NaN ELSE digitsValue(leadingDigits(s))

\* const zipSeed = Number.parseInt(zipCode) || 12345, line 399: NaN and 0
\* are falsy
zipSeed(zipCode) ==
    LET n == parseInt(zipCode)
    IN  IF n = NaN \/ n = 0 THEN 12345 ELSE n

\* floor(10^6 * (x - Math.floor(x))) for x = Math.sin(seed) * 10000, for the
\* seeds the ZIP codes of GeneratorZips lead to
MathSinFraction ==
    99 :> 931658 @@ 100 :> 343588 @@ 101 :> 257871 @@ 102 :> 267913 @@
    103 :> 886314 @@ 104 :> 775968 @@ 105 :> 647164 @@ 106 :> 574999 @@
    107 :> 817445 @@ 108 :> 185054 @@ 109 :> 426066 @@ 110 :> 573219 @@
    111 :> 485513 @@ 112 :> 43956 @@ 113 :> 180941 @@ 114 :> 803886 @@
    115 :> 353340 @@ 116 :> 613933 @@ 117 :> 20590 @@ 10001 :> 647255 @@
    10002 :> 880348 @@ 10003 :> 877786 @@ 10004 :> 564543 @@ 10005 :> 536504 @@
    10006 :> 51112 @@ 10007 :> 433064 @@ 10008 :> 441382 @@ 10009 :> 536901 @@
    10010 :> 249537 @@ 10011 :> 934863 @@ 10012 :> 68724 @@ 10013 :> 69067 @@
    10014 :> 990270 @@ 10015 :> 964993 @@ 10016 :> 32053 @@ 10017 :> 936583 @@
    10018 :> 542512 @@ 10019 :> 312525 @@ 12345 :> 283635 @@ 12346 :> 328745 @@
    12347 :> 831969 @@ 12348 :> 522825 @@ 12349 :> 376092 @@ 12350 :> 460847 @@
    12351 :> 731170 @@ 12352 :> 51415 @@ 12353 :> 437213 @@ 12354 :> 801590 @@
    12355 :> 220660 @@ 12356 :> 671714 @@ 12357 :> 84452 @@ 12358 :> 267713 @@
    12359 :> 35409 @@ 12360 :> 216374 @@ 12361 :> 120963 @@ 12362 :> 154348 @@
    12363 :> 91295

\* random(seed), lines 400-403, in millionths
random(seed) == MathSinFraction[seed]

\* Math.round(baseTemp + (random(seed + k) * tempVariation - tempVariation / 2))
\* with baseTemp = 40 + random(seed) * 40 and tempVariation = 15, lines
\* 405-406 and 415: Math.round(x) is floor(x + 0.5), and in millionths
\* x + 0.5 is 40000000 + 40 r0 + 15 rk - 7500000 + 500000
sampleHigh(seed, k) ==
    (33000000 + 40 * random(seed) + 15 * random(seed + k)) \div 1000000

\* weatherDescriptions[Math.floor(random(seed + k) * weatherDescriptions.length)]
sampleDescription(seed, k) ==
    weatherDescriptions[((random(seed + k) * Len(weatherDescriptions)) \div 1000000) + 1]

\* a day whose temperature also depends on the day of the month
sampleDaySeededByDate(date, seed, n) ==
    [date        |-> formatShortDate(date),
     high        |-> sampleHigh(seed, 2 * n - 1 + (date.d % 2)),
     description |-> sampleDescription(seed, 2 * n)]

\* the n-th day of the record: its date, high and description, lines 414-451
sampleDay(date, seed, n) ==
    [date        |-> formatShortDate(date),
     high        |-> sampleHigh(seed, 2 * n - 1),
     description |-> sampleDescription(seed, 2 * n)]

\* generateSampleWeekendData(zipCode) called when new Date() is now
generateSampleWeekendData(zipCode, now) ==
    LET city  == cityData(zipCode)
        wd    == getWeekendDates(now)
        seed  == zipSeed(zipCode)
    IN  [zip_code |-> zipCode,
         city     |-> city.name,
         state    |-> city.state,
         days     |-> <<sampleDay(wd.thisFriday, seed, 1),
                        sampleDay(wd.thisSaturday, seed, 2),
                        sampleDay(wd.thisSunday, seed, 3),
                        sampleDay(wd.lastYearFriday, seed, 4),
                        sampleDay(wd.lastYearSaturday, seed, 5),
                        sampleDay(wd.lastYearSunday, seed, 6),
                        sampleDay(wd.nextFriday, seed, 7),
                        sampleDay(wd.nextSaturday, seed, 8),
                        sampleDay(wd.nextSunday, seed, 9)>>]

\* the ZIP codes the generator is called with: one of the table, one that
\* parses to 0, one that begins with digits, one that is no number
GeneratorZips ==
    {<<"1", "0", "0", "0", "1">>, <<"0", "0", "0", "0", "0">>,
     <<"9", "9", "a">>, <<"a", "b", "c">>}

\* the days the calls are made on: Monday 2020-02-24 and the days after it
SampleDays ==
    {dt \in ValidDates :
        /\ DayNumber(dt) >= DayNumber([y |-> 2020, m |-> 2, d |-> 24])
        /\ DayNumber(dt) < DayNumber([y |-> 2020, m |-> 2, d |-> 24]) + MaxSampleDays}

InitSample == sampleCalls = <<>>

IdleSample == sampleCalls = <<>>

\* one call of the generator, made no earlier than the calls before it
GenerateSample ==
    /\ Len(sampleCalls) < MaxSampleCalls
    /\ \E zipCode \in GeneratorZips, now \in SampleDays :
        /\ \A i \in DOMAIN sampleCalls : DayNumber(sampleCalls[i].now) <= DayNumber(now)
        /\ sampleCalls' = Append(sampleCalls,
                                 [zipCode |-> zipCode, now |-> now,
                                  record  |-> generateSampleWeekendData(zipCode, now)])
    /\ UNCHANGED <<dateVars, zipVars, wkVars, stdVars, valVars, escVars, expVars, qryVars>>

-----------------------------------------------------------------------------
(***************************************************************************)
(* fetchWeekendWeatherForZip: the two query windows (lines 458-471) and    *)
(* the entries of the responses the parser reads (lines 507-544).  A Date  *)
(* is the local calendar date of getWeekendDates together with the local   *)
(* hour of new Date() and the zone's offset from UTC in hours; setDate and *)
(* setFullYear keep the local time of day.                                 *)
(***************************************************************************)

\* the calendar date before a date
previousDay(date) ==
    IF date.d > 1 THEN [date EXCEPT !.d = date.d - 1]
    ELSE IF date.m > 1
    THEN [y |-> date.y, m |-> date.m - 1, d |-> DaysInMonth(date.y, date.m - 1)]
    ELSE [y |-> date.y - 1, m |-> 12, d |-> 31]

\* formatApiDate, lines 357-359: date.toISOString().split("T")[0] is the
\* calendar date in UTC of the instant, which is the local date, the day
\* before it or the day after it; the date stands for the string
\* YYYY-MM-DD that spells it
formatApiDate(date, hour, offset) ==
    IF hour - offset < 0 THEN previousDay(date)
    ELSE IF hour - offset >= 24 THEN setDate(date, date.d + 1)
    ELSE date

\* historicalStartDate, historicalEndDate, forecastStartDate and
\* forecastEndDate of lines 463-471
queryWindows(now, hour, offset) ==
    LET wd == getWeekendDates(now)
    IN  [historicalStartDate |-> formatApiDate(wd.lastYearFriday, hour, offset),
         historicalEndDate   |-> formatApiDate(wd.lastYearSunday, hour, offset),
         forecastStartDate   |-> formatApiDate(wd.thisFriday, hour, offset),
         forecastEndDate     |-> formatApiDate(wd.nextSunday, hour, offset)]

\* the days array of a timeline response: one entry for each calendar date
\* from the start date to the end date of the URL, in order
RECURSIVE timelineDays(_, _)
timelineDays(start, end) ==
    IF DayNumber(start) > DayNumber(end) THEN <<>>
    ELSE <<start>> \o timelineDays(setDate(start, start.d + 1), end)

\* days[index] of a response, undefined past its end
NoDay == [none |-> TRUE]
dayAt(days, index) == IF index + 1 \in DOMAIN days THEN days[index + 1] ELSE NoDay

\* the indexes of historicalData.days the parser reads for last year's
\* Friday, Saturday and Sunday, lines 522-531
historicalIndexes == <<0, 1, 2>>

\* the indexes of forecastData.days the parser reads for this Friday,
\* Saturday, Sunday and next Friday, Saturday, Sunday, lines 509-518 and 535-544
forecastIndexes == <<0, 1, 2, 7, 8, 9>>

\* the local hours and the offsets from UTC the page is opened at
ClockHours == {1, 12, 22}
ZoneOffsets == {0 - 5, 0, 9}

InitQuery ==
    /\ queryNow \in ValidDates
    /\ queryHour \in ClockHours
    /\ queryOffset \in ZoneOffsets
    /\ queryDates = NotCalled

IdleQuery ==
    /\ queryNow = [y |-> FirstYear, m |-> 1, d |-> 1]
    /\ queryHour = 12
    /\ queryOffset = 0
    /\ queryDates = NotCalled

\* fetchWeekendWeatherForZip up to its first fetch, lines 458-471
BuildQueries ==
    /\ queryDates = NotCalled
    /\ queryDates' = queryWindows(queryNow, queryHour, queryOffset)
    /\ UNCHANGED <<queryNow, queryHour, queryOffset>>
    /\ UNCHANGED <<dateVars, zipVars, wkVars, stdVars, valVars, escVars, expVars, smpVars>>

-----------------------------------------------------------------------------
(* Specifications *)

NextDates == GetWeekendDates

InitSpecDates == InitDates /\ IdleZip /\ IdleWeekend /\ IdleStandard /\ IdleValidate /\ IdleEscape /\ IdleExport /\ IdleSample /\ IdleQuery

SpecDates == InitSpecDates /\ [][NextDates]_vars

NextZip == GenerateZips

InitSpecZip == IdleDates /\ InitZip /\ IdleWeekend /\ IdleStandard /\ IdleValidate /\ IdleEscape /\ IdleExport /\ IdleSample /\ IdleQuery

SpecZip == InitSpecZip /\ [][NextZip]_vars

NextWeekend ==
    \/ startFetching
    \/ \E i \in DOMAIN loops : sampleReady(i)
    \/ \E i \in DOMAIN loops, outcome \in Outcomes : historicalResponse(i, outcome)
    \/ \E i \in DOMAIN loops, outcome \in Outcomes : forecastResponse(i, outcome)
    \/ \E i \in DOMAIN loops : rateLimitWaitOver(i)
    \/ stopFetching
    \/ setTestMode
    \/ \E key \in ApiKeys : setApiKey(key)
    \/ \E lines \in ZipInputs : setZipCodes(lines)
    \/ clearAllData

InitSpecWeekend == IdleDates /\ IdleZip /\ InitWeekend /\ IdleStandard /\ IdleValidate /\ IdleEscape /\ IdleExport /\ IdleSample /\ IdleQuery

SpecWeekend == InitSpecWeekend /\ [][NextWeekend]_vars

NextStandard ==
    \/ \E key \in TypedApiKeys : sSetApiKey(key)
    \/ \E typed \in TypedZipCodes : sSetZipCodes(typed)
    \/ handleSubmit
    \/ \E p \in DOMAIN posts, outcome \in PostOutcomes : postResponse(p, outcome)
    \/ \E s \in DOMAIN streams :
           \E update \in Updates(posts[streams[s].session].zip_codes) : onmessage(s, update)
    \/ \E s \in DOMAIN streams : onerror(s)
    \/ \E v \in DOMAIN previews, outcome \in PreviewOutcomes : previewResponse(v, outcome)

InitSpecStandard == IdleDates /\ IdleZip /\ IdleWeekend /\ InitStandard /\ IdleValidate /\ IdleEscape /\ IdleExport /\ IdleSample /\ IdleQuery

SpecStandard == InitSpecStandard /\ [][NextStandard]_vars

NextValidate == ValidateAndClean

InitSpecValidate == IdleDates /\ IdleZip /\ IdleWeekend /\ IdleStandard /\ InitValidate /\ IdleEscape /\ IdleExport /\ IdleSample /\ IdleQuery

SpecValidate == InitSpecValidate /\ [][NextValidate]_vars

NextEscape == EscapeCSV

InitSpecEscape ==
    IdleDates /\ IdleZip /\ IdleWeekend /\ IdleStandard /\ IdleValidate /\ InitEscape
        /\ IdleExport /\ IdleSample /\ IdleQuery

SpecEscape == InitSpecEscape /\ [][NextEscape]_vars

NextExport == DownloadCsv

InitSpecExport ==
    IdleDates /\ IdleZip /\ IdleWeekend /\ IdleStandard /\ IdleValidate /\ IdleEscape
        /\ InitExport /\ IdleSample /\ IdleQuery

SpecExport == InitSpecExport /\ [][NextExport]_vars

NextSample == GenerateSample

InitSpecSample ==
    IdleDates /\ IdleZip /\ IdleWeekend /\ IdleStandard /\ IdleValidate /\ IdleEscape
        /\ IdleExport /\ InitSample /\ IdleQuery

SpecSample == InitSpecSample /\ [][NextSample]_vars

NextQuery == BuildQueries

InitSpecQuery ==
    IdleDates /\ IdleZip /\ IdleWeekend /\ IdleStandard /\ IdleValidate /\ IdleEscape
        /\ IdleExport /\ IdleSample /\ InitQuery

SpecQuery == InitSpecQuery /\ [][NextQuery]_vars

-----------------------------------------------------------------------------
(* Claims about the standard variant (checked under SpecStandard) *)

\* the positions of s at which a maximal run of non-separator characters starts
TokenStarts(s) ==
    {a \in DOMAIN s : s[a] \notin SplitChars /\ (a = 1 \/ s[a - 1] \in SplitChars)}

\* the maximal run of non-separator characters of s that starts at a
TokenFrom(s, a) ==
    LET ends == {b \in a..Len(s) : \A k \in a..b : s[k] \notin SplitChars}
    IN  SubSeq(s, a, CHOOSE b \in ends : \A c \in ends : c <= b)

\* the tokens of s that start at these positions, in the order they are written
RECURSIVE TokensFrom(_, _)
TokensFrom(s, starts) ==
    IF starts = {} THEN <<>>
    ELSE LET a == CHOOSE x \in starts : \A y \in starts : x <= y
         IN  <<TokenFrom(s, a)>> \o TokensFrom(s, starts \ {a})

\* the tokens of s that are neither five digits nor five digits, "-", four digits
FailingTokens(s) ==
    SelectSeq(TokensFrom(s, TokenStarts(s)), LAMBDA token : ~ZIP_CODE_REGEX_test(token))

InvalidZipMessages(tokens) ==
    <<Message("Invalid ZIP codes found: ", join(tokens), 0),
      Message("Please use 5-digit ZIP codes (e.g., 12345 or 12345-6789)", <<>>, 0)>>

\* C4: when at least one token of the submitted text fails the ZIP pattern,
\* handleSubmit turns the whole submission down: the validation messages name
\* exactly the failing tokens, no POST is sent, none of the valid tokens is
\* accepted, and results, errors, the loading flag and the progress stay as
\* they were.
C4_InvalidTokenRejectsSubmission ==
    [][(lastHandler' = "handleSubmit" /\ FailingTokens(sZipCodes) # <<>>)
        => /\ validationErrors' = InvalidZipMessages(FailingTokens(sZipCodes))
           /\ posts' = posts
           /\ UNCHANGED <<sWeatherData, errors, isLoading, sProgress, processedZips,
                          totalZips, currentZip, isCompleted, streams, previews>>]_vars

\* C4: 12345, abcde, 67890 on three lines has been submitted while the rows
\* of an earlier session are shown; exactly abcde is reported
C4_Witness ==
    /\ lastHandler = "handleSubmit"
    /\ sZipCodes = T12345 \o <<"\n">> \o Tabcde \o <<"\n">> \o T67890
    /\ validationErrors = InvalidZipMessages(<<Tabcde>>)
    /\ Len(posts) = 1
    /\ sWeatherData # <<>>
    /\ ~isLoading

ConnectionError == Message("Connection error occurred", <<>>, 0)

\* C5: a network failure of the event stream ends the session: the step in
\* which onerror runs switches loading off, appends one connection-error
\* message and closes the stream; from then on the stream handles no event
\* and is not reopened, and no POST or stream is made for its session again.
C5_StreamFailureEndsSession ==
    [][\A s \in DOMAIN streams :
        /\ (~streams[s].failed /\ streams'[s].failed)
              => /\ ~isLoading'
                 /\ errors' = Append(errors, ConnectionError)
                 /\ streams'[s].state = "closed"
                 /\ streams'[s].received = streams[s].received
                 /\ Len(streams') = Len(streams)
                 /\ UNCHANGED <<posts, previews>>
        /\ streams[s].failed
              => /\ streams'[s] = streams[s]
                 /\ \A r \in DOMAIN streams' :
                        r # s => streams'[r].session # streams[s].session]_vars

\* C5: a stream has failed after it had delivered a message
C5_Witness ==
    \E s \in DOMAIN streams :
        /\ streams[s].failed
        /\ streams[s].state = "closed"
        /\ streams[s].received >= 1
        /\ lastHandler = "onerror"
        /\ ~isLoading
        /\ errors # <<>>
        /\ errors[Len(errors)] = ConnectionError

\* the first five characters of each token
FiveDigitParts(tokens) == [k \in DOMAIN tokens |-> SubSeq(tokens[k], 1, 5)]

\* the positions at which a five-digit part occurs for the first time
FirstOccurrences(parts) == {k \in DOMAIN parts : \A j \in 1..(k - 1) : parts[j] # parts[k]}

\* C12: for a list of tokens that all match the pattern, validateAndCleanZipCodes
\* returns the five-digit part of each token, every part once, in the order
\* of first occurrence, and an empty invalid list.
C12_CleanedInFirstSeenOrder ==
    (cleaned # NotCalled /\ \A k \in DOMAIN tokenList : ZIP_CODE_REGEX_test(tokenList[k])) =>
        LET parts  == FiveDigitParts(tokenList)
            firsts == FirstOccurrences(parts)
        IN  /\ cleaned.invalid = <<>>
            /\ Len(cleaned.valid) = Cardinality(firsts)
            /\ \A k \in firsts :
                   cleaned.valid[Cardinality({j \in firsts : j <= k})] = parts[k]

\* C12 witness: 12345-6789, 67890, 12345 has been cleaned to 12345, 67890
C12_Witness ==
    /\ tokenList = <<TPlus4, T67890, T12345>>
    /\ cleaned # NotCalled
    /\ cleaned.valid = <<T12345, T67890>>
    /\ cleaned.invalid = <<>>

\* the ZIP list a valid text stands for: the five-digit part of each token,
\* every part once, in the order of first occurrence
CleanedList(s) ==
    LET parts  == FiveDigitParts(TokensFrom(s, TokenStarts(s)))
        firsts == FirstOccurrences(parts)
    IN  [i \in 1..Cardinality(firsts) |->
            parts[CHOOSE k \in firsts : Cardinality({j \in firsts : j <= k}) = i]]

\* the streams opened for the session of the p-th POST
StreamsOf(strs, p) == {s \in DOMAIN strs : strs[s].session = p}

\* C13: a valid submission sends exactly one POST, which carries the cleaned
\* ZIP list, and opens no stream yet; nothing but a submission sends a POST;
\* a POST answered with a 2xx status has exactly one stream, keyed by its
\* session, and a POST that is pending, was rejected or was answered with
\* another status has none.
C13_OnePostThenStream ==
    [][/\ (lastHandler' = "handleSubmit" /\ Len(posts') # Len(posts))
            => /\ Len(posts') = Len(posts) + 1
               /\ FailingTokens(sZipCodes) = <<>>
               /\ posts'[Len(posts')].zip_codes = CleanedList(sZipCodes)
               /\ posts'[Len(posts')].state = "pending"
               /\ streams' = streams
       /\ (lastHandler' = "handleSubmit" /\ FailingTokens(sZipCodes) = <<>>
              /\ TokenStarts(sZipCodes) # {})
            => Len(posts') = Len(posts) + 1
       /\ lastHandler' # "handleSubmit" => Len(posts') = Len(posts)
       /\ \A p \in DOMAIN posts' :
              Cardinality(StreamsOf(streams', p))
                  = (IF posts'[p].state = "answered" /\ posts'[p].status \in 200..299
                     THEN 1 ELSE 0)]_vars

\* C13 witness: the first POST was answered 500 and has no stream; the
\* second, sent for 12345-6789 12345,67890, carries 12345, 67890 and was
\* answered 200, and its stream is open
C13_Witness ==
    /\ Len(posts) = 2
    /\ posts[1].status = 500
    /\ posts[2].status = 200
    /\ posts[2].zip_codes = <<T12345, T67890>>
    /\ sZipCodes = TPlus4 \o <<" ">> \o T12345 \o <<",">> \o T67890
    /\ Len(streams) = 1
    /\ streams[1].session = 2
    /\ streams[1].state = "open"
    /\ sessionId = 2

\* the updates stream s can deliver
UpdatesOf(s) == Updates(posts[streams[s].session].zip_codes)

\* the preview requests made for a session
PreviewsOf(requests, session) == {v \in DOMAIN requests : requests[v].session = session}

\* C24: a completed event marks the session completed and not loading,
\* clears the current ZIP, closes the event stream and requests the preview
\* of that session exactly once; progress and error events never end the
\* session, a keepalive event changes no state, and no event is handled
\* after the completed event.
C24_CompletedEndsSession ==
    [][\A s \in DOMAIN streams :
          /\ \A update \in UpdatesOf(s) :
                onmessage(s, update) =>
                    CASE update.type = "completed" ->
                             /\ isCompleted'
                             /\ ~isLoading'
                             /\ currentZip' = <<>>
                             /\ streams'[s].state = "closed"
                             /\ PreviewsOf(previews, streams[s].session) = {}
                             /\ previews' = Append(previews, [session |-> streams[s].session,
                                                              state |-> "pending"])
                      [] update.type \in {"progress", "error"} ->
                             /\ streams'[s].state = "open"
                             /\ UNCHANGED <<isCompleted, isLoading, previews, sessionId>>
                      [] OTHER ->
                             /\ streams'[s].state = "open"
                             /\ UNCHANGED <<sApiKey, sZipCodes, isLoading, sProgress, currentZip,
                                            sessionId, sWeatherData, errors, validationErrors,
                                            isCompleted, totalZips, processedZips,
                                            eventSourceRef, posts, previews>>
          /\ streams[s].state = "closed" =>
                /\ streams'[s] = streams[s]
                /\ Cardinality(PreviewsOf(previews', streams[s].session))
                       = Cardinality(PreviewsOf(previews, streams[s].session))]_vars

\* C24 witness: the stream of the first session delivered a progress event
\* and then the completed event; it is closed, the session is completed and
\* its preview has been requested once
C24_Witness ==
    /\ Len(streams) = 1
    /\ streams[1].state = "closed"
    /\ ~streams[1].failed
    /\ streams[1].received = 2
    /\ processedZips = 1
    /\ isCompleted
    /\ ~isLoading
    /\ currentZip = <<>>
    /\ previews = <<[session |-> streams[1].session, state |-> "pending"]>>

\* C26 (as claimed): whenever results are shown with download enabled
\* (isCompleted is true and weatherData is non-empty), weatherData is the
\* preview of the session named by sessionId: a preview response of an
\* earlier session never replaces the data of a later submission.
C26_ShownDataIsOfCurrentSession ==
    (isCompleted /\ sWeatherData # <<>>) =>
        /\ sessionId \in DOMAIN posts
        /\ sWeatherData = previewRows(sessionId)

\* the event streams that are open
OpenStreams == {s \in DOMAIN streams : streams[s].state = "open"}

\* C27: at most one event stream is open at any time, and an event stream
\* is open only while isLoading is true.
C27_OneStreamOnlyWhileLoading ==
    /\ Cardinality(OpenStreams) <= 1
    /\ OpenStreams # {} => isLoading

\* C27 witness: the stream of the first session has been closed and the
\* stream of a second submission is open while the page is loading
C27_Witness ==
    /\ Len(streams) = 2
    /\ streams[1].state = "closed"
    /\ streams[2].state = "open"
    /\ streams[2].session = 2
    /\ isLoading

-----------------------------------------------------------------------------
(* Claims about the CSV exporter *)

SpecialChars == {",", "\"", "\n"}

\* number of double quotes among the first n characters of s
QuotesBefore(s, n) == Cardinality({j \in 1..n : s[j] = "\""})

\* out is s between double quotes, with each double quote of s written twice
QuotedAndDoubled(s, out) ==
    /\ Len(out) = Len(s) + QuotesBefore(s, Len(s)) + 2
    /\ out[1] = "\""
    /\ out[Len(out)] = "\""
    /\ \A k \in DOMAIN s :
           /\ out[k + 1 + QuotesBefore(s, k - 1)] = s[k]
           /\ s[k] = "\"" => out[k + 2 + QuotesBefore(s, k - 1)] = "\""

\* the text JavaScript writes for the values handed over: a string as it is,
\* 0, 72 and -5 in decimal
WrittenAs(value) ==
    IF value.kind = "string" THEN value.text
    ELSE IF value.number = 72 THEN <<"7", "2">>
    ELSE IF value.number = 0 THEN <<"0">>
    ELSE <<"-", "5">>

\* C14: escapeCSV writes null and undefined as the empty string, a value
\* with a comma, a double quote or a newline between double quotes with each
\* double quote of it doubled, and every other value unchanged.
C14_EscapeRule ==
    csvField # NotCalled =>
        IF csvValue.kind \in {"null", "undefined"} THEN csvField.text = <<>>
        ELSE IF \E k \in DOMAIN WrittenAs(csvValue) : WrittenAs(csvValue)[k] \in SpecialChars
        THEN QuotedAndDoubled(WrittenAs(csvValue), csvField.text)
        ELSE csvField.text = WrittenAs(csvValue)

\* C14 witness: the string ",", between two double quotes has been written
\* as seven characters
C14_Witness ==
    /\ csvValue = StringValue(<<"\"", ",", "\"">>)
    /\ csvField # NotCalled
    /\ csvField.text = <<"\"", "\"", "\"", ",", "\"", "\"", "\"">>

\* the positions of s that hold the separator outside double quotes
Cuts(s, separator) ==
    {k \in DOMAIN s : s[k] = separator /\ QuotesBefore(s, k - 1) % 2 = 0}

\* the pieces of s between the separators that stand outside double quotes
Pieces(s, separator) ==
    LET cuts   == Cuts(s, separator)
        n      == Cardinality(cuts)
        cut(i) == IF i = 0 THEN 0
                  ELSE IF i = n + 1 THEN Len(s) + 1
                  ELSE CHOOSE c \in cuts : Cardinality({d \in cuts : d <= c}) = i
    IN  [i \in 1..(n + 1) |-> SubSeq(s, cut(i - 1) + 1, cut(i) - 1)]

\* s with each pair of double quotes read as one
RECURSIVE Undoubled(_)
Undoubled(s) ==
    IF s = <<>> THEN <<>>
    ELSE IF Len(s) >= 2 /\ s[1] = "\"" /\ s[2] = "\"" THEN <<"\"">> \o Undoubled(SubSeq(s, 3, Len(s)))
    ELSE <<Head(s)>> \o Undoubled(Tail(s))

\* a field as a CSV reader returns it
Unescaped(field) ==
    IF field # <<>> /\ field[1] = "\"" THEN Undoubled(SubSeq(field, 2, Len(field) - 1))
    ELSE field

\* the data rows of an exported text: its lines after the five lines of the
\* preamble, the header row and the separator row, each split into fields
ParsedRows(text) ==
    LET lines == Pieces(text, "\n")
    IN  [r \in 1..(Len(lines) - 7) |->
            LET fields == Pieces(lines[r + 7], ",")
            IN  [c \in DOMAIN fields |-> Unescaped(fields[c])]]

\* the columns that hold a temperature
TemperatureColumns == {5, 8, 11, 14, 17, 20, 23, 26, 29}

\* the day a column of the per-day part belongs to
DayOfColumn(row, c) == row.days[((c - 4) \div 3) + 1]

\* the field of a record that column c is written from, numbers in decimal
OriginalField(row, c) ==
    IF c = 1 THEN row.zip_code
    ELSE IF c = 2 THEN row.city
    ELSE IF c = 3 THEN row.state
    ELSE IF c \in TemperatureColumns
    THEN (IF DayOfColumn(row, c).high = 72 THEN <<"7", "2">> ELSE <<"-", "5">>)
    ELSE IF (c + 1) \in TemperatureColumns THEN DayOfColumn(row, c).date
    ELSE DayOfColumn(row, c).description

\* C15 (as claimed): reading the data rows of the exported text back gives
\* every original field value, in the same rows and columns.
C15_RoundTrip ==
    (csvContent # NotCalled /\ csvContent.file) =>
        ParsedRows(csvContent.text)
            = [r \in DOMAIN exportData |-> [c \in 1..30 |-> OriginalField(exportData[r], c)]]

\* C15 (amended): reading the data rows of the exported text back gives, in
\* the same rows and columns, every original string field exactly and every
\* temperature as its number followed by the degree sign and F.
C15_RoundTripButTemperatures ==
    (csvContent # NotCalled /\ csvContent.file) =>
        ParsedRows(csvContent.text)
            = [r \in DOMAIN exportData |->
                  [c \in 1..30 |->
                      IF c \in TemperatureColumns
                      THEN OriginalField(exportData[r], c) \o <<"deg", "F">>
                      ELSE OriginalField(exportData[r], c)]]

QuotedWashington == <<"\"", "W", "a", "s", "h", "i", "n", "g", "t", "o", "n", ",", " ", "D", ".", "C", ".", "\"">>

\* C15 witness: two records have been exported, the first of the city
\* Washington, D.C., which stands quoted in the text and is read back as it was
C15_Witness ==
    /\ csvContent # NotCalled
    /\ csvContent.file
    /\ Len(exportData) = 2
    /\ exportData[1].city = <<"W", "a", "s", "h", "i", "n", "g", "t", "o", "n", ",", " ", "D", ".", "C", ".">>
    /\ exportData[2].zip_code = <<"1", ",", "\"", "2">>
    /\ \E k \in DOMAIN csvContent.text :
           SubSeq(csvContent.text, k, k + Len(QuotedWashington) - 1) = QuotedWashington
    /\ ParsedRows(csvContent.text)[1][2] = exportData[1].city
    /\ ParsedRows(csvContent.text)[2][1] = exportData[2].zip_code

-----------------------------------------------------------------------------
(***************************************************************************)
(* Claims about generateSampleWeekendData                                  *)
(***************************************************************************)

\* the pairs of calls made with the same ZIP code
SameZipCalls ==
    {p \in (DOMAIN sampleCalls) \X (DOMAIN sampleCalls) :
        sampleCalls[p[1]].zipCode = sampleCalls[p[2]].zipCode}

\* a record without the dates of its nine days
WithoutDates(record) ==
    [zip_code |-> record.zip_code, city |-> record.city, state |-> record.state,
     days |-> [n \in DOMAIN record.days |->
                  [high |-> record.days[n].high,
                   description |-> record.days[n].description]]]

\* C16: any two calls of generateSampleWeekendData with the same ZIP code
\* return records that are identical in every field.
C16_SameZipSameRecord ==
    \A p \in SameZipCalls : sampleCalls[p[1]].record = sampleCalls[p[2]].record

\* C16 amended: any two calls of generateSampleWeekendData with the same ZIP
\* code return records that are identical in every field other than the nine
\* date fields, and identical in every field when both calls are made on the
\* same day.
C16_SameZipSameRecordButDates ==
    \A p \in SameZipCalls :
        /\ WithoutDates(sampleCalls[p[1]].record) = WithoutDates(sampleCalls[p[2]].record)
        /\ sampleCalls[p[1]].now = sampleCalls[p[2]].now
            => sampleCalls[p[1]].record = sampleCalls[p[2]].record

\* two calls for ZIP code 10001, one on a Thursday and one on the Saturday
\* after it, whose records differ in their dates
C16_Witness ==
    /\ Len(sampleCalls) = 2
    /\ sampleCalls[1].zipCode = <<"1", "0", "0", "0", "1">>
    /\ sampleCalls[2].zipCode = <<"1", "0", "0", "0", "1">>
    /\ sampleCalls[1].now = [y |-> 2020, m |-> 2, d |-> 27]
    /\ sampleCalls[2].now = [y |-> 2020, m |-> 2, d |-> 29]
    /\ sampleCalls[1].record.city = <<"N", "e", "w", " ", "Y", "o", "r", "k">>
    /\ sampleCalls[1].record.days[1].date # sampleCalls[2].record.days[1].date
    /\ sampleCalls[1].record.days[1].high = sampleCalls[2].record.days[1].high

-----------------------------------------------------------------------------
(* Claims about the weekend page and its exporter together (SpecWeekend) *)

\* the Data Source an export of the records on the page would name now; the
\* download button is rendered while weatherData is not empty
ExportedDataSource == dataSource(testMode)

\* C28 (as claimed): the Data Source line of an exported CSV names the mode
\* in which the exported records were produced, Sample Data exactly when
\* they were generated in test mode and Live Weather Data exactly when they
\* were fetched from the provider, whatever was done to the test-mode toggle
\* between the run and the export.
C28_DataSourceNamesModeOfRecords ==
    \A k \in DOMAIN weatherData :
        /\ ExportedDataSource = SampleData <=> weatherData[k].origin = "sample"
        /\ ExportedDataSource = LiveWeatherData <=> weatherData[k].origin = "live"

-----------------------------------------------------------------------------
(* Claims about the query windows of fetchWeekendWeatherForZip (SpecQuery) *)

\* the dates the record is labelled with, getWeekendDates() of the call
Labelled == getWeekendDates(queryNow)

\* the days of the historical and of the forecast response
HistoricalDays == timelineDays(queryDates.historicalStartDate, queryDates.historicalEndDate)
ForecastDays == timelineDays(queryDates.forecastStartDate, queryDates.forecastEndDate)

\* C29 (as claimed): for every current date lastYearFriday, lastYearSaturday
\* and lastYearSunday are three distinct consecutive calendar dates, the
\* historical window from lastYearFriday to lastYearSunday spans exactly 3
\* days, and the entries days[0], days[1], days[2] the parser reads are
\* those three dates.
C29_HistoricalWindowIsLastYearsWeekend ==
    queryDates # NotCalled =>
        LET lastYear == <<Labelled.lastYearFriday, Labelled.lastYearSaturday,
                          Labelled.lastYearSunday>>
        IN  /\ DayNumber(lastYear[2]) = DayNumber(lastYear[1]) + 1
            /\ DayNumber(lastYear[3]) = DayNumber(lastYear[1]) + 2
            /\ Len(HistoricalDays) = 3
            /\ \A k \in 1..3 : dayAt(HistoricalDays, historicalIndexes[k]) = lastYear[k]

\* C30 (as claimed): for every current date the forecast window from
\* thisFriday to nextSunday spans exactly 10 consecutive days, with
\* thisFriday, thisSaturday, thisSunday at day offsets 0, 1, 2 and
\* nextFriday, nextSaturday, nextSunday at offsets 7, 8, 9, the indexes the
\* parser reads.
C30_ForecastWindowHoldsBothWeekends ==
    queryDates # NotCalled =>
        LET weekends == <<Labelled.thisFriday, Labelled.thisSaturday, Labelled.thisSunday,
                          Labelled.nextFriday, Labelled.nextSaturday, Labelled.nextSunday>>
        IN  /\ Len(ForecastDays) = 10
            /\ forecastIndexes = <<0, 1, 2, 7, 8, 9>>
            /\ \A k \in 1..6 :
                   /\ DayNumber(weekends[k]) = DayNumber(weekends[1]) + forecastIndexes[k]
                   /\ dayAt(ForecastDays, forecastIndexes[k]) = weekends[k]

\* the instant of the call falls on the same calendar date locally and in UTC
SameDateInUTC == queryHour - queryOffset \in 0..23

\* the statement of C30 for the calls made when the local date is the UTC date
ForecastWindowWhenSameDateInUTC == SameDateInUTC => C30_ForecastWindowHoldsBothWeekends

\* the statement of C29 for such calls whose weekend holds no Feb 29
HistoricalWindowWhenSameDateInUTC ==
    (SameDateInUTC
        /\ \A dt \in {Labelled.thisFriday, Labelled.thisSaturday, Labelled.thisSunday} :
               ~(dt.m = 2 /\ dt.d = 29))
    => C29_HistoricalWindowIsLastYearsWeekend

=============================================================================
